---- MODULE Spec2Model ----
(***************************************************************************)
(* Local mapper of PL-SLAM (src/PL-SLAM/src/LocalMapping.cc): the Run loop *)
(* of the mapper thread, its worker threads, and the control operations    *)
(* called by the tracker thread and by the loop-closer/system thread.      *)
(* Every step is one access to shared state (one critical section or one   *)
(* unlocked statement), so the interleavings of the threads are those of   *)
(* the code.                                                               *)
(***************************************************************************)
EXTENDS Integers, Sequences, FiniteSets, TLC

\* Number of keyframes the tracker creates and inserts in a run.
MaxKF == 4

\* Number of RequestStop / Release round trips followed in RoundTrip.
MaxRoundTrips == 4

\* Keyframes, feature indices per keyframe and kind, and map elements per kind
\* followed in Mirror.
MirrorKFs == 4
NSlots == 2
MaxElems == 2

\* Largest RANSAC score of a model followed in Reconstruct.
MaxScore == 5
MaxMatches == 9
MaxIterations == 2
MaxChecked == 2
MaxCull == 2
MaxPoints == 10
MaxOctave == 2
MaxObservers == 4
MaxFeatures == 2

\* Line 95: local BA runs when KeyFramesInMap() > 2.
BAMinKeyFrames == 2

VARIABLES
    pc,                       \* mapper thread: line of Run() it is at
    worker,                   \* the four std::thread objects of Run(): "none" | "run" | "done"
    mlNewKeyFrames,           \* the keyframe queue (list<KeyFrame*>)
    mpCurrentKeyFrame,        \* 0 = not set
    mapKFs,                   \* mpMap->AddKeyFrame calls, in order
    loopKFs,                  \* mpLoopCloser->InsertKeyFrame calls, in order
    mlpRecentAddedMapPoints,  \* probation list of points (first keyframe ids)
    mlpRecentAddedMapLines,   \* probation list of lines (first keyframe ids)
    mbResetRequested, mbFinishRequested, mbFinished, mbAbortBA,
    mbStopped, mbStopRequested, mbNotStop, mbAcceptKeyFrames,
    mMutexStop, mMutexFinish, \* owner of each mutex held across steps: "free" or a thread
    trackerPc,                \* tracker thread: "idle" | "reset_wait"
    closerPc,                 \* loop-closer/system thread: "idle" | "rs_stop" | "rel_stop" | "rel_clear"
    nextKFId,                 \* id of the next keyframe the tracker creates
    deleted,                  \* keyframes deleted by Release() (line 1800) that the mapper still
                              \* holds a pointer to (in the queue, the Map or the loop closer)
    lastCheckNew,             \* value returned by the mapper's latest CheckNewKeyFrames()
    lastStopReq,              \* value returned by the mapper's stopRequested() of line 92
    sinceCheck,               \* InsertKeyFrame/RequestStop completed since the check of line 92
    mirror,                   \* keyframe slots and observation maps of the map elements
    ini,                      \* one call of Initializer::Initialize: inputs, position, outputs
    fn,                       \* one call of a scoring or culling function: inputs and results
    roundTrip                 \* calls counted in RoundTrip: odd = RequestStop() called and not yet
                              \* released, even = that many Release() calls have returned

vars == <<pc, worker, mlNewKeyFrames, mpCurrentKeyFrame, mapKFs, loopKFs,
          mlpRecentAddedMapPoints, mlpRecentAddedMapLines,
          mbResetRequested, mbFinishRequested, mbFinished, mbAbortBA,
          mbStopped, mbStopRequested, mbNotStop, mbAcceptKeyFrames,
          mMutexStop, mMutexFinish, trackerPc, closerPc, nextKFId, deleted,
          lastCheckNew, lastStopReq, sinceCheck, roundTrip, mirror, ini, fn>>

flagVars == <<mbResetRequested, mbFinishRequested, mbFinished, mbAbortBA,
              mbStopped, mbStopRequested, mbNotStop, mbAcceptKeyFrames>>
dataVars == <<mlNewKeyFrames, mpCurrentKeyFrame, mapKFs, loopKFs,
              mlpRecentAddedMapPoints, mlpRecentAddedMapLines, nextKFId, deleted>>
clientVars == <<trackerPc, closerPc, roundTrip>>
mutexVars == <<mMutexStop, mMutexFinish>>
ghostVars == <<lastCheckNew, lastStopReq, sinceCheck>>

\* The state of the models of single functions, which the threads of the
\* mapper's control model leave alone, and the state of that control model.
sideVars == <<mirror, ini, fn>>
controlVars == <<pc, worker, dataVars, flagVars, mutexVars, clientVars, ghostVars>>

Range(s) == {s[i] : i \in 1..Len(s)}

\* Map elements are MapPoints and MapLines; 0 stands for a null pointer, an
\* empty slot or a missing observation.
Kinds == {"point", "line"}
KFIds == 1..MirrorKFs
Idx == 1..NSlots
Elems == 1..MaxElems

\* No keyframe, no map element: slot[k, K, i] is what KeyFrame K holds at
\* feature index i (GetMapPoint / GetMapLine), obs[k, m, K] the index under
\* which element m lists keyframe K in its observations.
MirrorInit ==
    [slot  |-> [x \in Kinds \X KFIds \X Idx |-> 0],
     obs   |-> [x \in Kinds \X Elems \X KFIds |-> 0],
     bad   |-> [x \in Kinds \X Elems |-> FALSE],
     n     |-> [k \in Kinds |-> 0],
     nKF   |-> 0,
     inMap |-> {},
     cur   |-> 0,
     phase |-> "idle"]

NoWorkers == [w \in {"cullPoint", "cullLine", "createP", "createL"} |-> "none"]

\* No call of Initialize is in progress.
NoInitialize == [phase |-> "none"]

\* No scoring or culling function is being evaluated.
NoCall == [op |-> "none"]

\* LocalMapping::LocalMapping, lines 33-37: the constructor's initial values.
ControlInit ==
    /\ pc = "L52"
    /\ worker = NoWorkers
    /\ mlNewKeyFrames = <<>>
    /\ mpCurrentKeyFrame = 0
    /\ mapKFs = <<>>
    /\ loopKFs = <<>>
    /\ mlpRecentAddedMapPoints = <<>>
    /\ mlpRecentAddedMapLines = <<>>
    /\ mbResetRequested = FALSE
    /\ mbFinishRequested = FALSE
    /\ mbFinished = TRUE
    /\ mbAbortBA = FALSE
    /\ mbStopped = FALSE
    /\ mbStopRequested = FALSE
    /\ mbNotStop = FALSE
    /\ mbAcceptKeyFrames = TRUE
    /\ mMutexStop = "free"
    /\ mMutexFinish = "free"
    /\ trackerPc = "idle"
    /\ closerPc = "idle"
    /\ nextKFId = 1
    /\ deleted = {}
    /\ lastCheckNew = FALSE
    /\ lastStopReq = FALSE
    /\ sinceCheck = FALSE
    /\ roundTrip = 0

\* The mapper is constructed; no map element exists and no function of the
\* other models has been called.
Init ==
    /\ ControlInit
    /\ mirror = MirrorInit
    /\ ini = NoInitialize
    /\ fn = NoCall

----------------------------------------------------------------------------
(* Operators for the conditions and pure computations of the code.         *)

\* CheckNewKeyFrames, lines 144-148: !mlNewKeyFrames.empty().
CheckNewKeyFrames == mlNewKeyFrames # <<>>

\* Map::KeyFramesInMap as used at line 95: the Map is a set of keyframes.
KeyFramesInMap == Cardinality(Range(mapKFs))

\* Line 82: SearchInNeighbors runs if !CheckNewKeyFrames().
FuseGate(hasNew) == ~hasNew

\* Line 92 without its queue test.
BAGateQueue_Always(hasNew) == TRUE

\* Line 92, first operand: !CheckNewKeyFrames().
BAGateQueue(hasNew) == ~hasNew

\* Line 92, second operand: !stopRequested().
BAGateStop(stopReq) == ~stopReq

\* Line 95: mpMap->KeyFramesInMap()>2.
BAGateMap(n) == n > BAMinKeyFrames

\* Stop that ignores mbNotStop.
StopAccepts_IgnoreNotStop(stopReq, notStop) == stopReq

\* Stop, line 1769: mbStopRequested && !mbNotStop.
StopAccepts(stopReq, notStop) == stopReq /\ ~notStop

\* A SetNotStop that never fails.
SetNotStopRefuses_Never(flag, stopped) == FALSE

\* SetNotStop, line 1822: flag && mbStopped makes the call fail.
SetNotStopRefuses(flag, stopped) == flag /\ stopped

\* Line 248-251: the build is monocular, nThObs = 2.
mbMonocular == TRUE
cnThObs == IF mbMonocular THEN 2 ELSE 3

\* The MapPoint created by CreateNewMapPoints for keyframe k, lines 576-590:
\* first keyframe k, observed by the two keyframes it was triangulated from.
NewMapPoint(k) == [first |-> k, bad |-> FALSE, found |-> 1, visible |-> 1, nObs |-> 2]

\* The MapLine created by CreateNewMapLinesConstraint for keyframe k, lines
\* 1418-1437: first keyframe k, observed by three keyframes.
NewMapLine(k) == [first |-> k, bad |-> FALSE, found |-> 1, visible |-> 1, nObs |-> 3]

\* MapPointCulling / MapLineCulling, lines 255-284 and 301-323: the test that
\* erases an element from the recent-added list (GetFoundRatio() = found/visible).
CullErases(e, cur) ==
    \/ e.bad
    \/ 4 * e.found < e.visible
    \/ (cur - e.first >= 2 /\ e.nObs <= cnThObs)
    \/ cur - e.first >= 3

\* The list left by a culling pass.
CullList(l, cur) == SelectSeq(l, LAMBDA e : ~CullErases(e, cur))

----------------------------------------------------------------------------
(* The mapper thread: LocalMapping::Run, lines 49-134.                     *)

Goto(l) == pc' = l

\* A crash of the mapper thread ends the process, and undefined behaviour is
\* not followed: no thread steps afterwards.
Alive == pc \notin {"crashed", "ub"}

\* A Run that leaves mbFinished as the constructor set it.
RunStartFinished_Kept == mbFinished

\* Line 52: the value Run gives mbFinished.
RunStartFinished == FALSE

\* Line 52: mbFinished = false (no mutex taken).
RunStart ==
    /\ pc = "L52"
    /\ mbFinished' = RunStartFinished
    /\ Goto("L59")
    /\ UNCHANGED <<worker, dataVars, mbResetRequested, mbFinishRequested, mbAbortBA,
                   mbStopped, mbStopRequested, mbNotStop, mbAcceptKeyFrames,
                   mutexVars, clientVars, sideVars, ghostVars>>

\* Line 59: SetAcceptKeyFrames(false).
RunSetBusy ==
    /\ pc = "L59"
    /\ mbAcceptKeyFrames' = FALSE
    /\ lastCheckNew' = FALSE
    /\ lastStopReq' = FALSE
    /\ Goto("L63")
    /\ UNCHANGED <<worker, dataVars, mbResetRequested, mbFinishRequested, mbFinished,
                   mbAbortBA, mbStopped, mbStopRequested, mbNotStop,
                   mutexVars, clientVars, sideVars, sinceCheck>>

\* Line 63: if(CheckNewKeyFrames()) ... else if(Stop()).
RunCheckQueue ==
    /\ pc = "L63"
    /\ lastCheckNew' = CheckNewKeyFrames
    /\ Goto(IF CheckNewKeyFrames THEN "L66" ELSE "L111")
    /\ UNCHANGED <<worker, dataVars, flagVars, mutexVars, clientVars, sideVars, lastStopReq, sinceCheck>>

\* The pointer ProcessNewKeyFrame reads at line 164 is valid: the list is not
\* empty and its front keyframe has not been deleted.
FrontValid ==
    IF mlNewKeyFrames = <<>> THEN FALSE ELSE Head(mlNewKeyFrames) \notin deleted

\* ProcessNewKeyFrame, lines 157-236: pop the front keyframe under the queue
\* mutex, bind its map elements (monocular: nothing joins the recent lists),
\* add it to the Map.
ProcessNewKeyFrame ==
    /\ pc = "L66"
    /\ FrontValid
    /\ mpCurrentKeyFrame' = Head(mlNewKeyFrames)
    /\ mlNewKeyFrames' = Tail(mlNewKeyFrames)
    /\ mapKFs' = Append(mapKFs, Head(mlNewKeyFrames))
    /\ Goto("L69")
    /\ UNCHANGED <<worker, loopKFs, mlpRecentAddedMapPoints, mlpRecentAddedMapLines,
                   nextKFId, deleted, flagVars, mutexVars, clientVars, sideVars, ghostVars>>

\* The pointers line 164 can read when Release (which does not take the queue
\* mutex) has emptied the list or deleted its keyframes since the check of
\* line 63: the deleted front keyframe, or, front() of an empty list being
\* undefined, any keyframe pointer the process has held.
InvalidFront ==
    IF mlNewKeyFrames # <<>> THEN {Head(mlNewKeyFrames)} ELSE 1..(nextKFId - 1)

\* ProcessNewKeyFrame on an invalid pointer, lines 164-235: the keyframe read
\* is processed and added to the Map. What the process does after this use of
\* an invalid pointer is undefined and is not followed further (pc = "ub").
ProcessNewKeyFrameInvalid ==
    /\ pc = "L66"
    /\ ~FrontValid
    /\ \E k \in InvalidFront :
          /\ mpCurrentKeyFrame' = k
          /\ mapKFs' = Append(mapKFs, k)
    /\ mlNewKeyFrames' = IF mlNewKeyFrames # <<>> THEN Tail(mlNewKeyFrames) ELSE <<>>
    /\ Goto("ub")
    /\ UNCHANGED <<worker, loopKFs, mlpRecentAddedMapPoints, mlpRecentAddedMapLines,
                   nextKFId, deleted, flagVars, mutexVars, clientVars, sideVars, ghostVars>>

\* ProcessNewKeyFrame on an invalid pointer: dereferencing it at line 170 ends
\* the process.
ProcessNewKeyFrameCrash ==
    /\ pc = "L66"
    /\ ~FrontValid
    /\ Goto("crashed")
    /\ UNCHANGED <<worker, dataVars, flagVars, mutexVars, clientVars, sideVars, ghostVars>>

\* Lines 69-70 and 75-77: construct a std::thread.
Spawn(at, w, to) ==
    /\ pc = at
    /\ worker' = [worker EXCEPT ![w] = "run"]
    /\ Goto(to)
    /\ UNCHANGED <<dataVars, flagVars, mutexVars, clientVars, sideVars, ghostVars>>

\* A join that does not wait for the thread.
JoinReturns_NoWait(w) == TRUE

\* std::thread::join, lines 71-72 and 78-79: it returns once the thread's
\* function has returned.
JoinReturns(w) == worker[w] = "done"

\* Lines 71-72 and 78-79: threadX.join().
Join(at, w, to) ==
    /\ pc = at
    /\ JoinReturns(w)
    /\ worker' = [worker EXCEPT ![w] = IF @ = "done" THEN "none" ELSE @]
    /\ Goto(to)
    /\ UNCHANGED <<dataVars, flagVars, mutexVars, clientVars, sideVars, ghostVars>>

RunSpawnCullPoint == Spawn("L69", "cullPoint", "L70")
RunSpawnCullLine == Spawn("L70", "cullLine", "L71")
RunJoinCullPoint == Join("L71", "cullPoint", "L72")
RunJoinCullLine == Join("L72", "cullLine", "L75")
RunSpawnCreateP == Spawn("L75", "createP", "L77")
RunSpawnCreateL == Spawn("L77", "createL", "L78")
RunJoinCreateP == Join("L78", "createP", "L79")
RunJoinCreateL == Join("L79", "createL", "L82")

\* Thread threadCullPoint: MapPointCulling, lines 241-285.
MapPointCulling ==
    /\ worker["cullPoint"] = "run"
    /\ mlpRecentAddedMapPoints' = CullList(mlpRecentAddedMapPoints, mpCurrentKeyFrame)
    /\ worker' = [worker EXCEPT !["cullPoint"] = "done"]
    /\ UNCHANGED <<pc, mlNewKeyFrames, mpCurrentKeyFrame, mapKFs, loopKFs,
                   mlpRecentAddedMapLines, nextKFId, deleted,
                   flagVars, mutexVars, clientVars, sideVars, ghostVars>>

\* Thread threadCullLine: MapLineCulling, lines 287-324.
MapLineCulling ==
    /\ worker["cullLine"] = "run"
    /\ mlpRecentAddedMapLines' = CullList(mlpRecentAddedMapLines, mpCurrentKeyFrame)
    /\ worker' = [worker EXCEPT !["cullLine"] = "done"]
    /\ UNCHANGED <<pc, mlNewKeyFrames, mpCurrentKeyFrame, mapKFs, loopKFs,
                   mlpRecentAddedMapPoints, nextKFId, deleted,
                   flagVars, mutexVars, clientVars, sideVars, ghostVars>>

\* Thread threadCreateP: CreateNewMapPoints, lines 329-600; the new point
\* joins the recent-added list (line 590).
CreateNewMapPoints ==
    /\ worker["createP"] = "run"
    /\ mlpRecentAddedMapPoints' = Append(mlpRecentAddedMapPoints, NewMapPoint(mpCurrentKeyFrame))
    /\ worker' = [worker EXCEPT !["createP"] = "done"]
    /\ UNCHANGED <<pc, mlNewKeyFrames, mpCurrentKeyFrame, mapKFs, loopKFs,
                   mlpRecentAddedMapLines, nextKFId, deleted,
                   flagVars, mutexVars, clientVars, sideVars, ghostVars>>

\* Thread threadCreateL: CreateNewMapLinesConstraint, lines 875-1440; the new
\* line joins the recent-added list (line 1437).
CreateNewMapLinesConstraint ==
    /\ worker["createL"] = "run"
    /\ mlpRecentAddedMapLines' = Append(mlpRecentAddedMapLines, NewMapLine(mpCurrentKeyFrame))
    /\ worker' = [worker EXCEPT !["createL"] = "done"]
    /\ UNCHANGED <<pc, mlNewKeyFrames, mpCurrentKeyFrame, mapKFs, loopKFs,
                   mlpRecentAddedMapPoints, nextKFId, deleted,
                   flagVars, mutexVars, clientVars, sideVars, ghostVars>>


\* Line 82: if(!CheckNewKeyFrames()) SearchInNeighbors().
RunCheckFuse ==
    /\ pc = "L82"
    /\ lastCheckNew' = CheckNewKeyFrames
    /\ Goto(IF FuseGate(CheckNewKeyFrames) THEN "L86" ELSE "L89")
    /\ UNCHANGED <<worker, dataVars, flagVars, mutexVars, clientVars, sideVars, lastStopReq, sinceCheck>>

\* Line 86: SearchInNeighbors, lines 1505-1650 (it changes map elements only).
SearchInNeighbors ==
    /\ pc = "L86"
    /\ Goto("L89")
    /\ UNCHANGED <<worker, dataVars, flagVars, mutexVars, clientVars, sideVars, ghostVars>>

\* The mapper leaves the span of lines 92-97 for line l: the values its checks
\* returned are dead.
LeaveBASpan(l) ==
    /\ Goto(l)
    /\ lastCheckNew' = FALSE
    /\ lastStopReq' = FALSE
    /\ sinceCheck' = FALSE

\* The value line 89 stores in mbAbortBA.
AbortResetValue == FALSE

\* Line 89: mbAbortBA = false (no mutex taken).
RunResetAbort ==
    /\ pc = "L89"
    /\ mbAbortBA' = AbortResetValue
    /\ Goto("L92")
    /\ UNCHANGED <<worker, dataVars, mbResetRequested, mbFinishRequested, mbFinished,
                   mbStopped, mbStopRequested, mbNotStop, mbAcceptKeyFrames,
                   mutexVars, clientVars, sideVars, ghostVars>>

\* Line 92, first operand: !CheckNewKeyFrames().
RunCheckBAQueue ==
    /\ pc = "L92"
    /\ IF BAGateQueue(CheckNewKeyFrames)
       THEN /\ lastCheckNew' = CheckNewKeyFrames
            /\ sinceCheck' = FALSE
            /\ Goto("L92s")
            /\ UNCHANGED lastStopReq
       ELSE LeaveBASpan("L109")
    /\ UNCHANGED <<worker, dataVars, flagVars, mutexVars, clientVars, sideVars>>

\* Line 92, second operand: !stopRequested(), under mMutexStop.
RunCheckBAStop ==
    /\ pc = "L92s"
    /\ mMutexStop = "free"
    /\ IF BAGateStop(mbStopRequested)
       THEN /\ lastStopReq' = mbStopRequested
            /\ Goto("L95")
            /\ UNCHANGED <<lastCheckNew, sinceCheck>>
       ELSE LeaveBASpan("L109")
    /\ UNCHANGED <<worker, dataVars, flagVars, mutexVars, clientVars, sideVars>>

\* Line 95: if(mpMap->KeyFramesInMap()>2).
RunCheckBAMap ==
    /\ pc = "L95"
    /\ IF BAGateMap(KeyFramesInMap)
       THEN Goto("L97") /\ UNCHANGED ghostVars
       ELSE LeaveBASpan("L105")
    /\ UNCHANGED <<worker, dataVars, flagVars, mutexVars, clientVars, sideVars>>

\* Line 97: Optimizer::LocalBundleAdjustmentWithLine runs on the mapper thread
\* (pc = "L97" while it runs, reading mbAbortBA) and returns.
LocalBundleAdjustmentReturn ==
    /\ pc = "L97"
    /\ LeaveBASpan("L105")
    /\ UNCHANGED <<worker, dataVars, flagVars, mutexVars, clientVars, sideVars>>

\* Line 105: KeyFrameCulling, lines 1835-1899 (it flags keyframes of the Map).
KeyFrameCulling ==
    /\ pc = "L105"
    /\ Goto("L109")
    /\ UNCHANGED <<worker, dataVars, flagVars, mutexVars, clientVars, sideVars, ghostVars>>

\* Line 109: mpLoopCloser->InsertKeyFrame(mpCurrentKeyFrame).
RunHandToLoopCloser ==
    /\ pc = "L109"
    /\ loopKFs' = Append(loopKFs, mpCurrentKeyFrame)
    /\ Goto("L122")
    /\ UNCHANGED <<worker, mlNewKeyFrames, mpCurrentKeyFrame, mapKFs,
                   mlpRecentAddedMapPoints, mlpRecentAddedMapLines, nextKFId, deleted,
                   flagVars, mutexVars, clientVars, sideVars, ghostVars>>

\* Line 111: else if(Stop()); Stop, lines 1766-1777, under mMutexStop.
Stop ==
    /\ pc = "L111"
    /\ mMutexStop = "free"
    /\ mbStopped' = IF StopAccepts(mbStopRequested, mbNotStop) THEN TRUE ELSE mbStopped
    /\ Goto(IF StopAccepts(mbStopRequested, mbNotStop) THEN "L114" ELSE "L122")
    /\ UNCHANGED <<worker, dataVars, mbResetRequested, mbFinishRequested, mbFinished,
                   mbAbortBA, mbStopRequested, mbNotStop, mbAcceptKeyFrames,
                   mutexVars, clientVars, sideVars, ghostVars>>

\* Line 114, first operand: isStopped(), under mMutexStop.
RunWaitIsStopped ==
    /\ pc = "L114"
    /\ mMutexStop = "free"
    /\ Goto(IF mbStopped THEN "L114f" ELSE "L118")
    /\ UNCHANGED <<worker, dataVars, flagVars, mutexVars, clientVars, sideVars, ghostVars>>

\* Line 114, second operand: !CheckFinish(), under mMutexFinish; then usleep.
RunWaitCheckFinish ==
    /\ pc = "L114f"
    /\ mMutexFinish = "free"
    /\ Goto(IF mbFinishRequested THEN "L118" ELSE "L114")
    /\ UNCHANGED <<worker, dataVars, flagVars, mutexVars, clientVars, sideVars, ghostVars>>

\* Lines 118-119: if(CheckFinish()) break.
RunStoppedCheckFinish ==
    /\ pc = "L118"
    /\ mMutexFinish = "free"
    /\ Goto(IF mbFinishRequested THEN "L133" ELSE "L122")
    /\ UNCHANGED <<worker, dataVars, flagVars, mutexVars, clientVars, sideVars, ghostVars>>

\* A reset that forgets the line list.
ResetLines_Kept == mlpRecentAddedMapLines

\* Line 1933: mlpRecentAddedMapLines.clear().
ResetLines == <<>>

\* Line 122: ResetIfRequested, lines 1926-1936, under mMutexReset only.
ResetIfRequested ==
    /\ pc = "L122"
    /\ IF mbResetRequested
       THEN /\ mlNewKeyFrames' = <<>>
            /\ deleted' = deleted \cap Range(mapKFs)
            /\ mlpRecentAddedMapPoints' = <<>>
            /\ mlpRecentAddedMapLines' = ResetLines
            /\ mbResetRequested' = FALSE
       ELSE UNCHANGED <<mlNewKeyFrames, deleted, mlpRecentAddedMapPoints,
                        mlpRecentAddedMapLines, mbResetRequested>>
    /\ Goto("L125")
    /\ UNCHANGED <<worker, mpCurrentKeyFrame, mapKFs, loopKFs, nextKFId,
                   mbFinishRequested, mbFinished, mbAbortBA, mbStopped, mbStopRequested,
                   mbNotStop, mbAcceptKeyFrames, mutexVars, clientVars, sideVars, ghostVars>>

\* Line 125: SetAcceptKeyFrames(true).
RunSetIdle ==
    /\ pc = "L125"
    /\ mbAcceptKeyFrames' = TRUE
    /\ Goto("L127")
    /\ UNCHANGED <<worker, dataVars, mbResetRequested, mbFinishRequested, mbFinished,
                   mbAbortBA, mbStopped, mbStopRequested, mbNotStop,
                   mutexVars, clientVars, sideVars, ghostVars>>

\* Lines 127-130: if(CheckFinish()) break; usleep(3000).
RunCheckFinish ==
    /\ pc = "L127"
    /\ mMutexFinish = "free"
    /\ Goto(IF mbFinishRequested THEN "L133" ELSE "L59")
    /\ UNCHANGED <<worker, dataVars, flagVars, mutexVars, clientVars, sideVars, ghostVars>>

\* Line 133: SetFinish, lines 1952-1953: lock mMutexFinish, mbFinished = true.
SetFinishLockFinish ==
    /\ pc = "L133"
    /\ mMutexFinish = "free"
    /\ mMutexFinish' = "mapper"
    /\ mbFinished' = TRUE
    /\ Goto("L1954")
    /\ UNCHANGED <<worker, dataVars, mbResetRequested, mbFinishRequested, mbAbortBA,
                   mbStopped, mbStopRequested, mbNotStop, mbAcceptKeyFrames,
                   mMutexStop, clientVars, sideVars, ghostVars>>

\* SetFinish, lines 1954-1956: lock mMutexStop, mbStopped = true, unlock both.
SetFinishLockStop ==
    /\ pc = "L1954"
    /\ mMutexStop = "free"
    /\ mbStopped' = TRUE
    /\ mMutexFinish' = "free"
    /\ Goto("done")
    /\ UNCHANGED <<worker, dataVars, mbResetRequested, mbFinishRequested, mbFinished,
                   mbAbortBA, mbStopRequested, mbNotStop, mbAcceptKeyFrames,
                   mMutexStop, clientVars, sideVars, ghostVars>>

----------------------------------------------------------------------------
(* The tracker thread.                                                     *)

\* The mapper is inside the span the check of line 92 opens: from that check
\* to the return of local BA.
InBASpan == pc \in {"L92s", "L95", "L97"}

\* InsertKeyFrame that leaves mbAbortBA as it was.
InsertAbortValue_Unset == mbAbortBA

\* Line 140: mbAbortBA=true.
InsertAbortValue == TRUE

\* InsertKeyFrame, lines 136-141, under mMutexNewKFs.
InsertKeyFrame ==
    /\ Alive
    /\ trackerPc = "idle"
    /\ nextKFId <= MaxKF
    /\ mlNewKeyFrames' = Append(mlNewKeyFrames, nextKFId)
    /\ nextKFId' = nextKFId + 1
    /\ mbAbortBA' = InsertAbortValue
    /\ sinceCheck' = InBASpan
    /\ UNCHANGED <<pc, worker, mpCurrentKeyFrame, mapKFs, loopKFs,
                   mlpRecentAddedMapPoints, mlpRecentAddedMapLines, deleted,
                   mbResetRequested, mbFinishRequested, mbFinished,
                   mbStopped, mbStopRequested, mbNotStop, mbAcceptKeyFrames,
                   mutexVars, clientVars, sideVars, lastCheckNew, lastStopReq>>

\* SetNotStop, lines 1818-1828, under mMutexStop.
SetNotStop(flag) ==
    /\ Alive
    /\ trackerPc = "idle"
    /\ mMutexStop = "free"
    /\ mbNotStop' = IF SetNotStopRefuses(flag, mbStopped) THEN mbNotStop ELSE flag
    /\ mbNotStop' # mbNotStop
    /\ UNCHANGED <<pc, worker, dataVars, mbResetRequested, mbFinishRequested, mbFinished,
                   mbAbortBA, mbStopped, mbStopRequested, mbAcceptKeyFrames,
                   mutexVars, clientVars, sideVars, ghostVars>>

TrackerSetNotStop == \E flag \in BOOLEAN : SetNotStop(flag)

\* InterruptBA, lines 1830-1833 (no mutex taken).
InterruptBA ==
    /\ Alive
    /\ trackerPc = "idle"
    /\ ~mbAbortBA
    /\ mbAbortBA' = TRUE
    /\ UNCHANGED <<pc, worker, dataVars, mbResetRequested, mbFinishRequested, mbFinished,
                   mbStopped, mbStopRequested, mbNotStop, mbAcceptKeyFrames,
                   mutexVars, clientVars, sideVars, ghostVars>>

\* RequestReset, lines 1910-1913: set the flag under mMutexReset.
RequestReset ==
    /\ Alive
    /\ trackerPc = "idle"
    /\ mbResetRequested' = TRUE
    /\ trackerPc' = "reset_wait"
    /\ UNCHANGED <<pc, worker, dataVars, mbFinishRequested, mbFinished, mbAbortBA,
                   mbStopped, mbStopRequested, mbNotStop, mbAcceptKeyFrames,
                   mutexVars, closerPc, roundTrip, sideVars, ghostVars>>

\* RequestReset, lines 1915-1923: poll until the flag is clear, then return.
RequestResetReturn ==
    /\ Alive
    /\ trackerPc = "reset_wait"
    /\ ~mbResetRequested
    /\ trackerPc' = "idle"
    /\ UNCHANGED <<pc, worker, dataVars, flagVars, mutexVars, closerPc, roundTrip, sideVars, ghostVars>>

----------------------------------------------------------------------------
(* The loop-closer / system thread.                                        *)

\* RequestStop, lines 1760-1761: lock mMutexStop, mbStopRequested = true; the
\* call is counted as rt.
RequestStopCall(rt) ==
    /\ Alive
    /\ closerPc = "idle"
    /\ mMutexStop = "free"
    /\ mMutexStop' = "closer"
    /\ mbStopRequested' = TRUE
    /\ closerPc' = "rs_stop"
    /\ roundTrip' = rt
    /\ UNCHANGED <<pc, worker, dataVars, mbResetRequested, mbFinishRequested, mbFinished,
                   mbAbortBA, mbStopped, mbNotStop, mbAcceptKeyFrames,
                   mMutexFinish, trackerPc, sideVars, ghostVars>>

RequestStopLockStop == RequestStopCall(roundTrip)

\* RequestStop, lines 1762-1764: lock mMutexNewKFs, mbAbortBA = true, unlock both.
RequestStopSetAbort ==
    /\ Alive
    /\ closerPc = "rs_stop"
    /\ mbAbortBA' = TRUE
    /\ sinceCheck' = InBASpan
    /\ mMutexStop' = "free"
    /\ closerPc' = "idle"
    /\ UNCHANGED <<pc, worker, dataVars, mbResetRequested, mbFinishRequested, mbFinished,
                   mbStopped, mbStopRequested, mbNotStop, mbAcceptKeyFrames,
                   mMutexFinish, trackerPc, roundTrip, sideVars, lastCheckNew, lastStopReq>>

\* Release, line 1793: lock mMutexStop.
ReleaseLockStop ==
    /\ Alive
    /\ closerPc = "idle"
    /\ mMutexStop = "free"
    /\ mMutexStop' = "closer"
    /\ closerPc' = "rel_stop"
    /\ UNCHANGED <<pc, worker, dataVars, flagVars, mMutexFinish, trackerPc, roundTrip, sideVars, ghostVars>>

\* A Release that leaves the stop request standing.
ReleaseStopRequested_Kept == mbStopRequested

\* Line 1798: mbStopRequested = false.
ReleaseStopRequested == FALSE

\* Release, lines 1794-1800: lock mMutexFinish; return if mbFinished; clear
\* mbStopped and mbStopRequested; delete every queued keyframe.
ReleaseLockFinish ==
    /\ Alive
    /\ closerPc = "rel_stop"
    /\ mMutexFinish = "free"
    /\ IF mbFinished
       THEN /\ mMutexStop' = "free"
            /\ closerPc' = "idle"
            /\ UNCHANGED <<mMutexFinish, mbStopped, mbStopRequested, deleted>>
       ELSE /\ mMutexFinish' = "closer"
            /\ mbStopped' = FALSE
            /\ mbStopRequested' = ReleaseStopRequested
            /\ deleted' = deleted \cup Range(mlNewKeyFrames)
            /\ closerPc' = "rel_clear"
            /\ UNCHANGED mMutexStop
    /\ UNCHANGED <<pc, worker, mlNewKeyFrames, mpCurrentKeyFrame, mapKFs, loopKFs,
                   mlpRecentAddedMapPoints, mlpRecentAddedMapLines, nextKFId,
                   mbResetRequested, mbFinishRequested, mbFinished, mbAbortBA,
                   mbNotStop, mbAcceptKeyFrames, trackerPc, roundTrip, sideVars, ghostVars>>

\* Release, lines 1801-1804: mlNewKeyFrames.clear() (mMutexNewKFs is not
\* taken), unlock both; the return is counted as rt.
ReleaseReturn(rt) ==
    /\ Alive
    /\ closerPc = "rel_clear"
    /\ mlNewKeyFrames' = <<>>
    /\ deleted' = deleted \cap Range(mapKFs)
    /\ mMutexStop' = "free"
    /\ mMutexFinish' = "free"
    /\ closerPc' = "idle"
    /\ roundTrip' = rt
    /\ UNCHANGED <<pc, worker, mpCurrentKeyFrame, mapKFs, loopKFs,
                   mlpRecentAddedMapPoints, mlpRecentAddedMapLines, nextKFId,
                   flagVars, trackerPc, sideVars, ghostVars>>

ReleaseClear == ReleaseReturn(roundTrip)

\* RequestFinish, lines 1938-1942, under mMutexFinish.
RequestFinish ==
    /\ Alive
    /\ closerPc = "idle"
    /\ mMutexFinish = "free"
    /\ ~mbFinishRequested
    /\ mbFinishRequested' = TRUE
    /\ UNCHANGED <<pc, worker, dataVars, mbResetRequested, mbFinished, mbAbortBA,
                   mbStopped, mbStopRequested, mbNotStop, mbAcceptKeyFrames,
                   mutexVars, clientVars, sideVars, ghostVars>>

----------------------------------------------------------------------------

MapperStep ==
    \/ RunStart \/ RunSetBusy \/ RunCheckQueue
    \/ ProcessNewKeyFrame \/ ProcessNewKeyFrameInvalid \/ ProcessNewKeyFrameCrash
    \/ RunSpawnCullPoint \/ RunSpawnCullLine \/ RunJoinCullPoint \/ RunJoinCullLine
    \/ RunSpawnCreateP \/ RunSpawnCreateL \/ RunJoinCreateP \/ RunJoinCreateL
    \/ RunCheckFuse \/ SearchInNeighbors \/ RunResetAbort
    \/ RunCheckBAQueue \/ RunCheckBAStop \/ RunCheckBAMap
    \/ LocalBundleAdjustmentReturn \/ KeyFrameCulling \/ RunHandToLoopCloser
    \/ Stop \/ RunWaitIsStopped \/ RunWaitCheckFinish \/ RunStoppedCheckFinish
    \/ ResetIfRequested \/ RunSetIdle \/ RunCheckFinish
    \/ SetFinishLockFinish \/ SetFinishLockStop

WorkerStep ==
    \/ MapPointCulling \/ MapLineCulling
    \/ CreateNewMapPoints \/ CreateNewMapLinesConstraint

TrackerStep ==
    \/ InsertKeyFrame \/ TrackerSetNotStop \/ InterruptBA
    \/ RequestReset \/ RequestResetReturn

CloserStep ==
    \/ RequestStopLockStop \/ RequestStopSetAbort
    \/ ReleaseLockStop \/ ReleaseLockFinish \/ ReleaseClear
    \/ RequestFinish

Next == MapperStep \/ WorkerStep \/ TrackerStep \/ CloserStep

Spec == Init /\ [][Next]_vars

\* Fair scheduling: a thread that can run infinitely often does run, and a
\* call in progress goes on when its mutex can be taken.
Fairness ==
    /\ SF_vars(MapperStep)
    /\ SF_vars(WorkerStep)
    /\ WF_vars(RequestStopSetAbort)
    /\ SF_vars(ReleaseLockFinish)
    /\ WF_vars(ReleaseClear)
    /\ WF_vars(RequestResetReturn)

FairSpec == Init /\ [][Next]_vars /\ Fairness

----------------------------------------------------------------------------
(* RequestStop / Release round trips on a freshly started mapper: the      *)
(* tracker is silent, the loop closer calls RequestStop(), waits for the   *)
(* mapper to be stopped, and calls Release().                              *)

RoundTripRequestStop ==
    /\ roundTrip % 2 = 0
    /\ roundTrip < 2 * MaxRoundTrips
    /\ RequestStopCall(roundTrip + 1)

RoundTripReleaseLockStop ==
    /\ roundTrip % 2 = 1
    /\ mbStopped
    /\ ReleaseLockStop

RoundTripReleaseReturn == ReleaseReturn(roundTrip + 1)

RoundTripNext ==
    \/ RunStart \/ RunSetBusy \/ RunCheckQueue
    \/ Stop \/ RunWaitIsStopped \/ RunWaitCheckFinish \/ RunStoppedCheckFinish
    \/ ResetIfRequested \/ RunSetIdle \/ RunCheckFinish
    \/ RoundTripRequestStop \/ RequestStopSetAbort
    \/ RoundTripReleaseLockStop \/ ReleaseLockFinish \/ RoundTripReleaseReturn

RoundTrip == Init /\ [][RoundTripNext]_vars


----------------------------------------------------------------------------
(* Keyframe slots and observation maps: what ProcessNewKeyFrame and the    *)
(* two creation functions do to them for one keyframe after the other.     *)

\* MapPoint::AddObservation(pKF, idx) / MapLine::AddObservation.
AddObservation(obs, k, m, K, i) == [obs EXCEPT ![<<k, m, K>>] = i]

\* KeyFrame::AddMapPoint(pMP, idx) / KeyFrame::AddMapLine.
AddMapElement(slot, k, m, K, i) == [slot EXCEPT ![<<k, K, i>>] = m]

\* MapPoint::IsInKeyFrame(pKF) / MapLine::IsInKeyFrame.
IsInKeyFrame(obs, k, m, K) == obs[<<k, m, K>>] # 0

\* The matches a keyframe comes with: existing elements, none twice.
TrackedMatches ==
    {f \in [Kinds \X Idx -> 0..MaxElems] :
        /\ \A x \in DOMAIN f : f[x] <= mirror.n[x[1]]
        /\ \A x, y \in DOMAIN f : (x # y /\ x[1] = y[1] /\ f[x] # 0) => f[x] # f[y]}

\* The tracker creates the next keyframe with its matches f; for the matches
\* in pre it has added the observation itself: all of them for a keyframe of
\* the initial map, none for a tracked keyframe (monocular).
MirrorTrackKeyFrame ==
    /\ mirror.phase = "idle"
    /\ mirror.nKF < MirrorKFs
    /\ \E f \in TrackedMatches : \E pre \in {{}, {x \in DOMAIN f : f[x] # 0}} :
         LET K == mirror.nKF + 1 IN
         mirror' = [mirror EXCEPT
            !.nKF = K,
            !.cur = K,
            !.phase = "queued",
            !.slot = [x \in DOMAIN mirror.slot |->
                        IF x[2] = K THEN f[<<x[1], x[3]>>] ELSE mirror.slot[x]],
            !.obs = [x \in DOMAIN mirror.obs |->
                        IF x[3] = K /\ \E i \in Idx : <<x[1], i>> \in pre /\ f[<<x[1], i>>] = x[2]
                        THEN CHOOSE i \in Idx : <<x[1], i>> \in pre /\ f[<<x[1], i>>] = x[2]
                        ELSE mirror.obs[x]]]
    /\ UNCHANGED <<controlVars, ini, fn>>

\* Lines 178-205 (points) and 209-228 (lines): the loop over the matches of
\* the current keyframe, from index i on.
RECURSIVE AssociateFrom(_, _, _, _, _, _)
AssociateFrom(obs, slot, bad, k, K, i) ==
    IF i > NSlots THEN obs
    ELSE LET m == slot[<<k, K, i>>] IN
         IF m # 0 /\ ~bad[<<k, m>>] /\ ~IsInKeyFrame(obs, k, m, K)
         THEN AssociateFrom(AddObservation(obs, k, m, K, i), slot, bad, k, K, i + 1)
         ELSE AssociateFrom(obs, slot, bad, k, K, i + 1)

\* ProcessNewKeyFrame, lines 176-227, and mpMap->AddKeyFrame, line 235.
MirrorProcessNewKeyFrame ==
    /\ mirror.phase = "queued"
    /\ mirror' = [mirror EXCEPT
          !.obs = AssociateFrom(
                    AssociateFrom(mirror.obs, mirror.slot, mirror.bad, "point", mirror.cur, 1),
                    mirror.slot, mirror.bad, "line", mirror.cur, 1),
          !.inMap = mirror.inMap \cup {mirror.cur},
          !.phase = "cull"]
    /\ UNCHANGED <<controlVars, ini, fn>>

\* MapPoint::SetBadFlag / MapLine::SetBadFlag, called by the culling of lines
\* 241-324: the element is flagged and taken out of its keyframes.
MirrorSetBadFlag ==
    /\ mirror.phase = "cull"
    /\ \E k \in Kinds : \E m \in 1..mirror.n[k] :
         /\ ~mirror.bad[<<k, m>>]
         /\ mirror' = [mirror EXCEPT
               !.bad = [mirror.bad EXCEPT ![<<k, m>>] = TRUE],
               !.slot = [x \in DOMAIN mirror.slot |->
                           IF x[1] = k /\ mirror.obs[<<k, m, x[2]>>] = x[3]
                           THEN 0 ELSE mirror.slot[x]],
               !.obs = [x \in DOMAIN mirror.obs |->
                           IF x[1] = k /\ x[2] = m THEN 0 ELSE mirror.obs[x]]]
    /\ UNCHANGED <<controlVars, ini, fn>>

\* Lines 71-75: the culling threads are joined, the creation threads start.
MirrorCullingDone ==
    /\ mirror.phase = "cull"
    /\ mirror' = [mirror EXCEPT !.phase = "create"]
    /\ UNCHANGED <<controlVars, ini, fn>>

\* ORBmatcher::SearchForTriangulation pairs features that have no MapPoint
\* in either keyframe.
PointPairUnmatched(K2, idx1, idx2) ==
    /\ mirror.slot[<<"point", mirror.cur, idx1>>] = 0
    /\ mirror.slot[<<"point", K2, idx2>>] = 0

\* CreateNewMapPoints, lines 577-590: a triangulated match (idx1, idx2) with
\* the neighbour K2 becomes a MapPoint observed by both keyframes.
MirrorCreateNewMapPoint ==
    /\ mirror.phase = "create"
    /\ mirror.n["point"] < MaxElems
    /\ \E K2 \in mirror.inMap \ {mirror.cur} : \E idx1, idx2 \in Idx :
         /\ PointPairUnmatched(K2, idx1, idx2)
         /\ LET m == mirror.n["point"] + 1
                o1 == AddObservation(mirror.obs, "point", m, mirror.cur, idx1)
                o2 == AddObservation(o1, "point", m, K2, idx2)
                s1 == AddMapElement(mirror.slot, "point", m, mirror.cur, idx1)
                s2 == AddMapElement(s1, "point", m, K2, idx2)
            IN mirror' = [mirror EXCEPT !.n["point"] = m, !.obs = o2, !.slot = s2]
    /\ UNCHANGED <<controlVars, ini, fn>>

\* A line creation that does not look at the slots.
LineSlotsFree_Unchecked(ikl, K2, idx1, K3, idx2) == TRUE

\* Line 1044: skip the match if the current keyframe, pKF2 or pKF3 already
\* holds a MapLine at its index.
LineSlotsFree(ikl, K2, idx1, K3, idx2) ==
    /\ mirror.slot[<<"line", mirror.cur, ikl>>] = 0
    /\ mirror.slot[<<"line", K2, idx1>>] = 0
    /\ mirror.slot[<<"line", K3, idx2>>] = 0

\* CreateNewMapLinesConstraint, lines 1036-1437: the match of line ikl of the
\* current keyframe with line idx1 of pKF2 and line idx2 of pKF3 becomes a
\* MapLine observed by the three keyframes.
MirrorCreateNewMapLine ==
    /\ mirror.phase = "create"
    /\ mirror.n["line"] < MaxElems
    /\ \E K2, K3 \in mirror.inMap \ {mirror.cur} : \E ikl, idx1, idx2 \in Idx :
         /\ K2 # K3
         /\ LineSlotsFree(ikl, K2, idx1, K3, idx2)
         /\ LET m == mirror.n["line"] + 1
                o1 == AddObservation(mirror.obs, "line", m, mirror.cur, ikl)
                o2 == AddObservation(o1, "line", m, K2, idx1)
                o3 == AddObservation(o2, "line", m, K3, idx2)
                s1 == AddMapElement(mirror.slot, "line", m, mirror.cur, ikl)
                s2 == AddMapElement(s1, "line", m, K2, idx1)
                s3 == AddMapElement(s2, "line", m, K3, idx2)
            IN mirror' = [mirror EXCEPT !.n["line"] = m, !.obs = o3, !.slot = s3]
    /\ UNCHANGED <<controlVars, ini, fn>>

\* Lines 78-79: both creation threads are joined.
MirrorCreationDone ==
    /\ mirror.phase = "create"
    /\ mirror' = [mirror EXCEPT !.phase = "idle"]
    /\ UNCHANGED <<controlVars, ini, fn>>

MirrorNext ==
    \/ MirrorTrackKeyFrame \/ MirrorProcessNewKeyFrame
    \/ MirrorSetBadFlag \/ MirrorCullingDone
    \/ MirrorCreateNewMapPoint \/ MirrorCreateNewMapLine \/ MirrorCreationDone

Mirror == Init /\ [][MirrorNext]_vars

----------------------------------------------------------------------------
(* Initializer::Initialize (src/unnamed/part_000): model selection and the *)
(* acceptance tests of ReconstructH and ReconstructF.  Scores are small    *)
(* integers (exact as floats), parallax is in tenths of a degree, and the  *)
(* results of CheckRT for the hypotheses are inputs.                       *)

\* 2^25: a float in [0.25, 0.5) is a multiple of 2^-25.
TwoPow25 == 33554432

\* The smallest float in [0.25, 0.5) above the double 0.40 is
\* 13421773 * 2^-25 = 0.4000000059604645 (the float nearest 0.4).
Above040 == 13421773

\* Lines 142 and 261: minParallax = 1.0 degree, minTriangulated = 50.
minParallax == 10
minTriangulated == 50

\* Round a / b to the nearest integer, ties to even (IEEE 754 division).
RoundQuotient(a, b) ==
    LET q == a \div b
        r == a % b
    IN IF 2 * r > b \/ (2 * r = b /\ q % 2 = 1) THEN q + 1 ELSE q

\* Lines 136 and 140 (228 and 254): float RH = SH/(SH+SF); if(RH>0.40).
\* 0/0 is NaN and compares false; the float quotient is converted to double
\* for the comparison with the double literal 0.40.
RHAbove040(SH, SF) ==
    IF SH + SF = 0 THEN FALSE
    ELSE IF 2 * SH >= SH + SF THEN TRUE
    ELSE IF 4 * SH < SH + SF THEN FALSE
    ELSE RoundQuotient(SH * TwoPow25, SH + SF) >= Above040

\* Number of motion hypotheses: 8 from H (line 875), 4 from F (lines 665-668).
NHypotheses(path) == IF path = "H" THEN 8 ELSE 4

\* Numbers of valid matches Initialize is called with (line 81).
MatchCounts == (0..MaxMatches) \cup {57}

\* Numbers of inliers FindHomography / FindFundamental may report (lines
\* 644-647 and 750-753 count them) among m matches.
InlierCounts(m) == {n \in {0, m, 50, 56} : n <= m}

\* What CheckRT may report for the hypotheses: the hypothesis at position at
\* has best good points and the given parallax, its successor has second good
\* points, all the others have none (and parallax 2 degrees).
BestCounts(N) == {b \in {49, 50, 51, N} : b <= N}
SecondCounts(best) == {c \in {0, 34, 35, 38} : c <= best}
Parallaxes == {9, 10, 11}

NGood(r, n, i) ==
    IF i = r.at THEN r.best ELSE IF i = (r.at % n) + 1 THEN r.second ELSE 0
ParallaxOf(r, i) == IF i = r.at THEN r.parallax ELSE 20

\* Initialize is called (lines 56-57 and 150-152): the outputs hold the
\* caller's values; N = mvMatches12.size() (line 81); the first iteration of
\* the sampling copies vAllIndices (line 101).
InitializeCall ==
    /\ ini.phase = "none"
    /\ \E lines \in BOOLEAN, m \in MatchCounts :
         ini' = [phase |-> "sample", lines |-> lines, matches |-> m,
                 it |-> 0, j |-> 0, avail |-> m, oob |-> FALSE,
                 SH |-> 0, SF |-> 0, N |-> 0, path |-> "none", attempted |-> {},
                 sizeH |-> 0, sizeF |-> 0,
                 best |-> 0, second |-> 0, at |-> 0, parallax |-> 0,
                 solution |-> 0, ret |-> FALSE,
                 R21 |-> "orig", t21 |-> "orig", vP3D |-> "orig",
                 vbTriangulated |-> "orig", vLineS3D |-> "orig",
                 vLineE3D |-> "orig", vbLineTriangulated |-> "orig"]
    /\ UNCHANGED <<controlVars, mirror, fn>>

\* Lines 99-116: position after one pass of the inner loop body.  After the
\* eighth draw the next iteration copies vAllIndices again (line 101); after
\* the last iteration the models are computed.
AfterDraw(avail) ==
    IF ini.j + 1 < 8
    THEN [ini EXCEPT !.j = ini.j + 1, !.avail = avail]
    ELSE IF ini.it + 1 < MaxIterations
         THEN [ini EXCEPT !.it = ini.it + 1, !.j = 0, !.avail = ini.matches]
         ELSE [ini EXCEPT !.it = ini.it + 1, !.j = 0, !.avail = avail,
                          !.phase = "select"]

\* Lines 106-114: one draw from a non-empty vAvailableIndices: randi is in
\* 0..size-1, the entry is replaced by the last one and the list shrinks.
SampleDraw ==
    /\ ini.phase = "sample"
    /\ ini.avail > 0
    /\ \E randi \in 0..(ini.avail - 1) : ini' = AfterDraw(ini.avail - 1)
    /\ UNCHANGED <<controlVars, mirror, fn>>

\* Lines 106-114 with vAvailableIndices empty: size()-1 wraps, operator[],
\* back() and pop_back() act on an empty vector.  The behaviour is undefined:
\* the process is stopped, or it goes on with what it read.
SampleEmpty ==
    /\ ini.phase = "sample"
    /\ ini.avail = 0
    /\ \/ ini' = [ini EXCEPT !.phase = "crashed", !.oob = TRUE]
       \/ ini' = [AfterDraw(0) EXCEPT !.oob = TRUE]
    /\ UNCHANGED <<controlVars, mirror, fn>>

\* FindHomography, lines 279-322: size of vbMatchesInliersH at the return.
\* The vector is created with N = mvMatches12.size() entries (lines 279 and
\* 290) and replaced by vectors of that size (lines 487 and 320).
InliersSizeH(matches, score) == matches

\* FindFundamental, lines 336-380: size of vbMatchesInliersF at the return.
\* N = vbMatchesInliers.size() (line 336) is the size of the caller's
\* vector, which Initialize passes empty (line 120); the vector gets one
\* entry per match only when an iteration's score exceeds the best score
\* (lines 374-377, with the resize of line 562), that is when the returned
\* score is above 0.
InliersSizeF(matches, score) == IF score > 0 THEN matches ELSE 0

\* Lines 644-647: ReconstructF counts the inliers in vbMatchesInliersF, so
\* an empty vector has none.
InlierCountsOf(path, matches, SF) ==
    IF path = "F" /\ InliersSizeF(matches, SF) = 0 THEN {0} ELSE InlierCounts(matches)

\* Lines 118-143 and 209-254: FindHomography and FindFundamental give the
\* scores and the inliers, and the model is chosen by RH.
InitializeSelect ==
    /\ ini.phase = "select"
    /\ \E SH \in 0..MaxScore, SF \in 0..MaxScore :
         LET path == IF RHAbove040(SH, SF) THEN "H" ELSE "F"
         IN \E N \in InlierCountsOf(path, ini.matches, SF) :
              ini' = [ini EXCEPT !.phase = "reconstruct", !.SH = SH, !.SF = SF,
                                 !.N = N, !.path = path,
                                 !.sizeH = InliersSizeH(ini.matches, SH),
                                 !.sizeF = InliersSizeF(ini.matches, SF)]
    /\ UNCHANGED <<controlVars, mirror, fn>>

\* Lines 866-895: the loop over the 8 hypotheses of ReconstructH.
RECURSIVE BestOfH(_, _, _)
BestOfH(r, i, st) ==
    IF i > NHypotheses("H") THEN st
    ELSE LET nGood == NGood(r, NHypotheses("H"), i)
         IN BestOfH(r, i + 1,
                IF nGood > st.bestGood
                THEN [bestGood |-> nGood, secondBestGood |-> st.bestGood,
                      bestSolutionIdx |-> i, bestParallax |-> ParallaxOf(r, i)]
                ELSE IF nGood > st.secondBestGood
                     THEN [st EXCEPT !.secondBestGood = nGood]
                     ELSE st)

HLoop(r) ==
    BestOfH(r, 1, [bestGood |-> 0, secondBestGood |-> 0,
                   bestSolutionIdx |-> 0, bestParallax |-> -1])

\* Line 898: the acceptance test of ReconstructH (0.75 is exact in binary;
\* bestGood > 0.9*N is decided away from ties by 10*bestGood > 9*N).
AcceptsH(st, N) ==
    /\ 4 * st.secondBestGood < 3 * st.bestGood
    /\ st.bestParallax >= minParallax
    /\ st.bestGood > minTriangulated
    /\ 10 * st.bestGood > 9 * N

\* Line 670.
MaxGood(r) ==
    CHOOSE g \in {NGood(r, 4, i) : i \in 1..4} : \A i \in 1..4 : NGood(r, 4, i) <= g

\* Line 675: nMinGood = max(static_cast<int>(0.9*N), minTriangulated).
NMinGood(N) ==
    IF (9 * N) \div 10 > minTriangulated THEN (9 * N) \div 10 ELSE minTriangulated

\* Lines 677-685: nGood > 0.7*maxGood (the double product 0.7*50 is 35.0, and
\* no other count drawn here is a tie).
NSimilar(r) == Cardinality({i \in 1..4 : 10 * NGood(r, 4, i) > 7 * MaxGood(r)})

\* Lines 695-739: the chain takes the first hypothesis that has maxGood.
ChosenF(r) == CHOOSE i \in 1..4 :
    /\ NGood(r, 4, i) = MaxGood(r)
    /\ \A h \in 1..(i - 1) : NGood(r, 4, h) # MaxGood(r)

\* Lines 688-741: the acceptance test of ReconstructF.
AcceptsF(r, N) ==
    /\ ~(MaxGood(r) < NMinGood(N) \/ NSimilar(r) > 1)
    /\ ParallaxOf(r, ChosenF(r)) > minParallax

\* Lines 258-262 and 267-271: the line overload triangulates the lines only
\* when the reconstruction succeeded.
ReconstructLine(lines, ok, old) == IF lines /\ ok THEN "solution" ELSE old

\* ReconstructF that leaves R21 and t21 alone until it succeeds.
ClearedByF_Kept(old) == old

\* Lines 672-673: R21 = cv::Mat(); t21 = cv::Mat(); before any return.
ClearedByF(old) == "empty"

\* Lines 141, 257 and 747-913: ReconstructH and, in the line overload,
\* ReconstructLine.
ReconstructH ==
    /\ ini.phase = "reconstruct"
    /\ ini.path = "H"
    /\ \E best \in BestCounts(ini.N), at \in 1..4, parallax \in Parallaxes :
       \E second \in SecondCounts(best) :
         LET r == [ini EXCEPT !.best = best, !.second = second, !.at = at,
                              !.parallax = parallax]
             st == HLoop(r)
             ok == AcceptsH(st, ini.N)
         IN ini' = [r EXCEPT !.phase = "done", !.attempted = ini.attempted \cup {"H"},
                             !.ret = ok,
                             !.solution = IF ok THEN st.bestSolutionIdx ELSE 0,
                             !.R21 = IF ok THEN "solution" ELSE ini.R21,
                             !.t21 = IF ok THEN "solution" ELSE ini.t21,
                             !.vP3D = IF ok THEN "solution" ELSE ini.vP3D,
                             !.vbTriangulated = IF ok THEN "solution" ELSE ini.vbTriangulated,
                             !.vLineS3D = ReconstructLine(ini.lines, ok, ini.vLineS3D),
                             !.vLineE3D = ReconstructLine(ini.lines, ok, ini.vLineE3D),
                             !.vbLineTriangulated =
                                 ReconstructLine(ini.lines, ok, ini.vbLineTriangulated)]
    /\ UNCHANGED <<controlVars, mirror, fn>>

\* Lines 143, 266 and 641-742: ReconstructF and, in the line overload,
\* ReconstructLine.  CheckRT reads vbMatchesInliers[i] for every match (lines
\* 1021-1024): with a shorter vector the reads are out of range, and the
\* process is stopped or CheckRT counts what it read.
ReconstructF ==
    /\ ini.phase = "reconstruct"
    /\ ini.path = "F"
    /\ \/ /\ ini.sizeF < ini.matches
          /\ ini' = [ini EXCEPT !.phase = "crashed", !.oob = TRUE,
                                !.attempted = ini.attempted \cup {"F"}]
       \/ \E best \in BestCounts(IF ini.sizeF < ini.matches THEN ini.matches ELSE ini.N),
             at \in 1..4, parallax \in Parallaxes :
          \E second \in SecondCounts(best) :
         LET r == [ini EXCEPT !.best = best, !.second = second, !.at = at,
                              !.parallax = parallax]
             ok == AcceptsF(r, ini.N)
         IN ini' = [r EXCEPT !.phase = "done", !.attempted = ini.attempted \cup {"F"},
                             !.oob = ini.oob \/ ini.sizeF < ini.matches,
                             !.ret = ok,
                             !.solution = IF ok THEN ChosenF(r) ELSE 0,
                             !.R21 = IF ok THEN "solution" ELSE ClearedByF(ini.R21),
                             !.t21 = IF ok THEN "solution" ELSE ClearedByF(ini.t21),
                             !.vP3D = IF ok THEN "solution" ELSE ini.vP3D,
                             !.vbTriangulated = IF ok THEN "solution" ELSE ini.vbTriangulated,
                             !.vLineS3D = ReconstructLine(ini.lines, ok, ini.vLineS3D),
                             !.vLineE3D = ReconstructLine(ini.lines, ok, ini.vLineE3D),
                             !.vbLineTriangulated =
                                 ReconstructLine(ini.lines, ok, ini.vbLineTriangulated)]
    /\ UNCHANGED <<controlVars, mirror, fn>>

\* Initialize has returned; the tracker may call it for another frame.
InitializeReturn ==
    /\ ini.phase = "done"
    /\ ini' = NoInitialize
    /\ UNCHANGED <<controlVars, mirror, fn>>

InitializerNext ==
    \/ InitializeCall
    \/ SampleDraw
    \/ SampleEmpty
    \/ InitializeSelect
    \/ ReconstructH
    \/ ReconstructF
    \/ InitializeReturn

Initializer == Init /\ [][InitializerNext]_vars

----------------------------------------------------------------------------
(* Initializer::CheckHomography and CheckFundamental (src/unnamed/part_000, *)
(* lines 463-626).  Chi-square values are in thousandths.                  *)

\* Line 491: th = 5.991 in CheckHomography.
thHomography == 5991

\* Lines 566 and 567: th = 3.841 and thScore = 5.991 in CheckFundamental.
thFundamental == 3841
thScore == 5991

\* The inlier threshold and the score offset of each function.
Th(which) == IF which = "H" THEN thHomography ELSE thFundamental
ThScore(which) == IF which = "H" THEN thHomography ELSE thScore

\* Chi-square values of one transfer direction, around both thresholds.
ChiValues == {0, 3841, 3842, 5991, 5992}

\* The matches scored: the chi-square values of both directions of each.
RECURSIVE ChiSeqs(_)
ChiSeqs(n) ==
    IF n = 0 THEN {<<>>}
    ELSE ChiSeqs(n - 1) \cup
         {Append(q, <<c1, c2>>) : q \in ChiSeqs(n - 1), c1 \in ChiValues, c2 \in ChiValues}

\* A score that grows with the distance from the threshold on both sides.
Contribution_Distance(chi, which) ==
    IF chi > ThScore(which) THEN chi - ThScore(which) ELSE ThScore(which) - chi

\* Lines 518-521, 534-537 (H) and 596-599, 614-617 (F): what one direction
\* adds to the score: nothing above the threshold, th - chiSquare
\* (thScore - chiSquare in CheckFundamental) otherwise.
Contribution(chi, which) ==
    IF chi > Th(which) THEN 0 ELSE ThScore(which) - chi

\* Lines 495-543 and 571-623: the loop over the matches.  bIn starts true
\* and each direction above the threshold clears it; the score is added per
\* direction.
RECURSIVE CheckLoop(_, _, _, _)
CheckLoop(which, chis, i, acc) ==
    IF i > Len(chis) THEN acc
    ELSE LET chiSquare1 == chis[i][1]
             chiSquare2 == chis[i][2]
             bIn == ~(chiSquare1 > Th(which)) /\ ~(chiSquare2 > Th(which))
         IN CheckLoop(which, chis, i + 1,
                [score |-> acc.score + Contribution(chiSquare1, which)
                                     + Contribution(chiSquare2, which),
                 vbMatchesInliers |-> Append(acc.vbMatchesInliers, bIn)])

\* FindHomography (line 315) or FindFundamental (line 372) scores a model:
\* the function runs over all matches and returns.
CheckModel ==
    /\ fn.op = "none"
    /\ \E which \in {"H", "F"}, chis \in ChiSeqs(MaxChecked) :
         LET res == CheckLoop(which, chis, 1, [score |-> 0, vbMatchesInliers |-> <<>>])
         IN fn' = [op |-> "checked", which |-> which, chis |-> chis,
                   score |-> res.score, vbMatchesInliers |-> res.vbMatchesInliers]
    /\ UNCHANGED <<controlVars, mirror, ini>>

\* The caller has used the score (lines 317-322 and 374-379).
CheckReturn ==
    /\ fn.op = "checked"
    /\ fn' = NoCall
    /\ UNCHANGED <<controlVars, mirror, ini>>

ScoringNext == CheckModel \/ CheckReturn

Scoring == Init /\ [][ScoringNext]_vars

----------------------------------------------------------------------------
(* LocalMapping::MapPointCulling and MapLineCulling as functions of the    *)
(* recent-added list (lines 241-324).                                      *)

\* Lines 247-252 and 293-298: nThObs = 2 if monocular, 3 otherwise.
nThObs(mono) == IF mono THEN 2 ELSE 3

\* The elements a recent-added list may hold when keyframe cur is processed:
\* first keyframe up to 3 before cur, bad or not, found ratio 0 or 1/4,
\* 2 to 4 observations.
CullElements(cur) ==
    [first : (cur - 3)..cur, bad : BOOLEAN, found : {0, 1}, visible : {4},
     nObs : {2, 3, 4}]

RECURSIVE CullLists(_, _)
CullLists(cur, n) ==
    IF n = 0 THEN {<<>>}
    ELSE CullLists(cur, n - 1) \cup
         {Append(l, e) : l \in CullLists(cur, n - 1), e \in CullElements(cur)}

\* A culling that graduates old elements before it looks at their
\* observations.
CullOutcome_GraduateFirst(e, cur, th) ==
    IF e.bad THEN "erase"
    ELSE IF 4 * e.found < e.visible THEN "bad"
    ELSE IF cur - e.first >= 3 THEN "erase"
    ELSE IF cur - e.first >= 2 /\ e.nObs <= th THEN "bad"
    ELSE "keep"

\* Lines 258-283 and 304-322: the if-chain applied to one element: "erase"
\* erases it from the list, "bad" calls SetBadFlag and erases it, "keep"
\* advances the iterator.
CullOutcome(e, cur, th) ==
    IF e.bad THEN "erase"
    ELSE IF 4 * e.found < e.visible THEN "bad"
    ELSE IF cur - e.first >= 2 /\ e.nObs <= th THEN "bad"
    ELSE IF cur - e.first >= 3 THEN "erase"
    ELSE "keep"

\* Lines 255-284 and 301-323: the while loop.  acc.kept are the positions (in
\* the list at the call) of the elements left in the list, acc.bad the
\* positions of the elements that are bad at the end.
RECURSIVE CullLoop(_, _, _, _, _)
CullLoop(l, i, cur, th, acc) ==
    IF i > Len(l) THEN acc
    ELSE LET o == CullOutcome(l[i], cur, th)
         IN CullLoop(l, i + 1, cur, th,
                [kept |-> IF o = "keep" THEN Append(acc.kept, i) ELSE acc.kept,
                 bad |-> IF o = "bad" THEN acc.bad \cup {i} ELSE acc.bad])

\* Run calls MapPointCulling (line 69) or MapLineCulling (line 70) for the
\* current keyframe; the pass runs over the whole list.
CullingPass ==
    /\ fn.op = "none"
    /\ \E kind \in Kinds, mono \in BOOLEAN, cur \in {MaxKF} :
       \E l \in CullLists(cur, MaxCull) :
         LET res == CullLoop(l, 1, cur, nThObs(mono),
                             [kept |-> <<>>, bad |-> {i \in 1..Len(l) : l[i].bad}])
         IN fn' = [op |-> "culled", kind |-> kind, mono |-> mono, cur |-> cur,
                   before |-> l, kept |-> res.kept, bad |-> res.bad]
    /\ UNCHANGED <<controlVars, mirror, ini>>

\* The culling function has returned.
CullingReturn ==
    /\ fn.op = "culled"
    /\ fn' = NoCall
    /\ UNCHANGED <<controlVars, mirror, ini>>

CullingNext == CullingPass \/ CullingReturn

Culling == Init /\ [][CullingNext]_vars

----------------------------------------------------------------------------
(* LocalMapping::KeyFrameCulling (lines 1835-1899) as a function of the    *)
(* covisible keyframes of the current keyframe.                            *)

\* A covisible keyframe: its id, and how many of its MapPoint slots are
\* null or bad (skipped, lines 1856-1858), counted in nMPs and found
\* redundant (lines 1867-1890), counted and not found redundant.
CovisibleKeyFrames ==
    {k \in [id : 0..2, skipped : {0, 1}, redundant : 0..MaxPoints,
            other : 0..MaxPoints] : k.redundant + k.other <= MaxPoints}

\* Lines 1848-1893: the loop over the points of pKF.
CountPoints(k) == [nMPs |-> k.redundant + k.other, nRedundantObservations |-> k.redundant]

\* Lines 1844-1845 and 1896-1897: keyframe 0 is skipped; SetBadFlag is called
\* when nRedundantObservations > 0.9*nMPs (for these counts the double
\* product is the exact one, so the test is 10*nRedundant > 9*nMPs).
FlagsBad(k) ==
    /\ k.id # 0
    /\ 10 * CountPoints(k).nRedundantObservations > 9 * CountPoints(k).nMPs

\* Run calls KeyFrameCulling (line 105): the function runs over one or two
\* covisible keyframes and returns.
KeyFrameCullingCall ==
    /\ fn.op = "none"
    /\ \E l \in {<<k>> : k \in CovisibleKeyFrames}
               \cup {<<k1, k2>> : k1 \in {k \in CovisibleKeyFrames : k.other = 1},
                                  k2 \in CovisibleKeyFrames} :
         fn' = [op |-> "kfculled", vpLocalKeyFrames |-> l,
                flagged |-> {i \in 1..Len(l) : FlagsBad(l[i])}]
    /\ UNCHANGED <<controlVars, mirror, ini>>

\* KeyFrameCulling has returned.
KeyFrameCullingReturn ==
    /\ fn.op = "kfculled"
    /\ fn' = NoCall
    /\ UNCHANGED <<controlVars, mirror, ini>>

\* Line 1850: thObs = 3.
thObs == 3

\* The octaves at which the other keyframes observe one MapPoint, in the
\* order of the observation map.
RECURSIVE OctaveSeqs(_)
OctaveSeqs(n) ==
    IF n = 0 THEN {<<>>}
    ELSE OctaveSeqs(n - 1) \cup
         {Append(q, o) : q \in OctaveSeqs(n - 1), o \in 0..MaxOctave}

\* Lines 1873-1886: the loop over the observations of the other keyframes:
\* an observation with scaleLeveli <= scaleLevel + 1 is counted, and the loop
\* breaks when thObs are counted.
RECURSIVE CountLoop(_, _, _, _)
CountLoop(others, i, scaleLevel, acc) ==
    IF i > Len(others) \/ acc.nObs >= thObs THEN acc
    ELSE CountLoop(others, i + 1, scaleLevel,
             IF others[i] <= scaleLevel + 1
             THEN [nObs |-> acc.nObs + 1, counted |-> acc.counted \cup {i}]
             ELSE acc)

\* Lines 1867-1891: one counted point of pKF, seen by pKF at scaleLevel and
\* by the other keyframes at the octaves of others.  With fewer than four
\* observations (Observations() > thObs fails) nothing is counted.
CountObservations ==
    /\ fn.op = "none"
    /\ \E scaleLevel \in 0..MaxOctave, others \in OctaveSeqs(MaxObservers) :
         LET res == IF Len(others) + 1 > thObs
                    THEN CountLoop(others, 1, scaleLevel, [nObs |-> 0, counted |-> {}])
                    ELSE [nObs |-> 0, counted |-> {}]
         IN fn' = [op |-> "counted", scaleLevel |-> scaleLevel, others |-> others,
                   nObs |-> res.nObs, counted |-> res.counted,
                   redundant |-> Len(others) + 1 > thObs /\ res.nObs >= thObs]
    /\ UNCHANGED <<controlVars, mirror, ini>>

\* The loop over the points goes on to the next point.
CountObservationsReturn ==
    /\ fn.op = "counted"
    /\ fn' = NoCall
    /\ UNCHANGED <<controlVars, mirror, ini>>

KeyFrameCullingNext ==
    \/ KeyFrameCullingCall \/ KeyFrameCullingReturn
    \/ CountObservations \/ CountObservationsReturn

KFCulling == Init /\ [][KeyFrameCullingNext]_vars

----------------------------------------------------------------------------
(* Triangulation of one line match: Initializer::ReconstructLine           *)
(* (src/unnamed/part_000, lines 1242-1368) and the candidate of            *)
(* LocalMapping::CreateNewMapLinesConstraint (lines 1036-1437).  Squared   *)
(* reprojection errors are in hundredths of sigma^2.                       *)

\* Lines 1266-1330 of LocalMapping.cc: (err*err) > 3.84*sigmaSquare rejects.
chiLine == 384

\* Depths of an endpoint in a camera, and squared errors of an endpoint in a
\* view, on both sides of the tests.
DepthValues == {-1, 0, 1}
ErrorValues == {chiLine, chiLine + 1}

\* Lines 1284-1313 of part_000: the tests ReconstructLine makes before it
\* stores the endpoints: the line is not parallel to the epipolar lines, the
\* endpoints are finite, and the parallax of both endpoints is enough.
ReconstructLineKeeps(c) == ~c.parallel /\ c.finite /\ ~c.lowParallax

\* Lines 1222-1224 of part_000: the three output vectors are resized to
\* mvKeys1.size(), the number of point features of the reference frame.
LineOutputSize(nKeys, nKeyLines) == nKeys

\* Initializer::ReconstructLine, one pass of the loop of line 1242 for the
\* match c of reference line index (line 1245), in a reference frame with
\* nKeys point features and nKeyLines line features: depth[v][e] is the
\* depth of endpoint e in camera v, err[v] the error computed for view v
\* (lines 1343 and 1365, stored in errorC1 and errorC2).  A match that was
\* kept is written at position index of the outputs (lines 1315, 1316 and
\* 1367); a write past the end is undefined: the process is stopped or goes on.
ReconstructLineMatch ==
    /\ fn.op = "none"
    /\ \E parallel \in BOOLEAN, finite \in BOOLEAN, lowParallax \in BOOLEAN,
          depth \in [1..2 -> [1..2 -> DepthValues]], err \in [1..2 -> ErrorValues],
          nKeys \in 0..MaxFeatures, nKeyLines \in 1..MaxFeatures :
       \E index \in 0..(nKeyLines - 1) :
         LET c == [parallel |-> parallel, finite |-> finite,
                   lowParallax |-> lowParallax, depth |-> depth, err |-> err]
             size == LineOutputSize(nKeys, nKeyLines)
             wrote == ReconstructLineKeeps(c)
         IN \E crashed \in {FALSE, wrote /\ ~(index < size)} :
              fn' = [op |-> "line", by |-> "ReconstructLine", views |-> 2,
                     depth |-> depth, err |-> err, made |-> wrote /\ ~crashed,
                     nKeys |-> nKeys, nKeyLines |-> nKeyLines, index |-> index,
                     size |-> size, wrote |-> wrote, crashed |-> crashed]
    /\ UNCHANGED <<controlVars, mirror, ini>>

\* Lines 1231-1252 of LocalMapping.cc: every endpoint has positive depth in
\* the three cameras.
InFrontOfCameras(depth) == \A v \in 1..3 : \A e \in 1..2 : ~(depth[v][e] <= 0)

\* Lines 1266-1331 of LocalMapping.cc: no endpoint has a squared
\* reprojection error above 3.84*sigmaSquare in any of the three views.
ReprojectsWithin(err) == \A v \in 1..3 : \A e \in 1..2 : ~(err[v][e] > chiLine)

\* CreateNewMapLinesConstraint, one candidate (ikl, idx1, idx2): other stands
\* for the tests on the epipolar planes, the distances and the overlap (lines
\* 1065-1228 and 1333-1416); the MapLine is created at line 1421 when no
\* test has skipped the candidate.
CreateLineCandidate ==
    /\ fn.op = "none"
    /\ \E other \in BOOLEAN, depth \in [1..3 -> [1..2 -> DepthValues]],
          err \in [1..3 -> [1..2 -> ErrorValues]] :
         \* one view at a time is off the passing values
         /\ Cardinality({v \in 1..3 : \E e \in 1..2 :
                            depth[v][e] # 1 \/ err[v][e] # chiLine}) <= 1
         /\ fn' = [op |-> "line", by |-> "CreateNewMapLinesConstraint", views |-> 3,
                   depth |-> depth, err |-> err,
                   made |-> other /\ InFrontOfCameras(depth) /\ ReprojectsWithin(err)]
    /\ UNCHANGED <<controlVars, mirror, ini>>

\* The loop goes on to the next match.
LineReturn ==
    /\ fn.op = "line"
    /\ fn.by = "ReconstructLine" => ~fn.crashed
    /\ fn' = NoCall
    /\ UNCHANGED <<controlVars, mirror, ini>>

LineTriangulationNext == ReconstructLineMatch \/ CreateLineCandidate \/ LineReturn

LineTriangulation == Init /\ [][LineTriangulationNext]_vars

----------------------------------------------------------------------------
(* The neighbour keyframes of LocalMapping::CreateNewMapLinesConstraint    *)
(* (LocalMapping.cc, lines 882-1002 and 1421-1430).  Neighbours and        *)
(* positions of the collected list are numbered from 0, as in the code.    *)

\* Number of neighbour keyframes GetBestCovisibilityKeyFrames returns.
MaxNeighbours == 4

\* Line 882-885: the neighbours are fetched; fewer than two returns at once.
\* short[k] tells that the baseline to neighbour k fails the test of lines
\* 935-947.
CreateNewMapLinesConstraintCall ==
    /\ fn.op = "none"
    /\ \E n \in 0..MaxNeighbours :
       \E short \in [0..(n - 1) -> BOOLEAN] :
         fn' = [op |-> IF n < 2 THEN "linesReturned" ELSE "collect",
                n |-> n, short |-> short, i |-> 0, j |-> 0,
                collected |-> << >>, nTotalMatched |-> << >>]
    /\ UNCHANGED <<controlVars, mirror, ini>>

\* Lines 921-964, one pass of the first loop for neighbour vpNeighKFs[i]:
\* a new keyframe in the queue returns from the third neighbour on (line
\* 923); a short baseline goes on to the next neighbour without a push_back
\* (lines 938 and 946); otherwise the match array computed against
\* vpNeighKFs[i] and its number of matches are appended (lines 962-963).
\* collected[p + 1] is the neighbour the array at position p was computed
\* against.
CollectLineMatches ==
    /\ fn.op = "collect"
    /\ fn.i < fn.n
    /\ \E newKeyFrames \in BOOLEAN, nlmatch \in 0..1 :
         fn' = IF fn.i > 1 /\ newKeyFrames
                 THEN [fn EXCEPT !.op = "linesReturned"]
               ELSE IF fn.short[fn.i]
                 THEN [fn EXCEPT !.i = fn.i + 1]
               ELSE [fn EXCEPT !.i = fn.i + 1,
                               !.collected = Append(fn.collected, fn.i),
                               !.nTotalMatched = Append(fn.nTotalMatched, nlmatch)]
    /\ UNCHANGED <<controlVars, mirror, ini>>

\* Lines 966-969: after the first loop, fewer than two collected arrays
\* return; otherwise the loops over the pairs of positions start.
CollectEnd ==
    /\ fn.op = "collect"
    /\ fn.i = fn.n
    /\ fn' = IF Len(fn.collected) < 2
               THEN [fn EXCEPT !.op = "linesReturned"]
             ELSE [fn EXCEPT !.op = "pairs", !.i = 0, !.j = 1]
    /\ UNCHANGED <<controlVars, mirror, ini>>

\* Lines 976 and 1002: pKF2 = vpNeighKFs[i] and pKF3 = vpNeighKFs[j], the
\* neighbour at the position of the collected list.
KeyFrameOfPosition(collected, p) == p

\* Lines 969-1002 and 1421-1430, one pass for the positions (i, j) of the
\* collected list: a position without matches is passed over (lines 973 and
\* 999); otherwise a candidate whose indices come from TotalvMatchedIndices[i]
\* and TotalvMatchedIndices[j] becomes a MapLine observed by pKF2 and pKF3.
PairOfPositions ==
    /\ fn.op = "pairs"
    /\ fn.i < Len(fn.collected) - 1
    /\ fn' = IF fn.nTotalMatched[fn.i + 1] = 0
               THEN [fn EXCEPT !.i = fn.i + 1, !.j = fn.i + 2]
             ELSE IF fn.j >= Len(fn.collected)
               THEN [fn EXCEPT !.i = fn.i + 1, !.j = fn.i + 2]
             ELSE IF fn.nTotalMatched[fn.j + 1] = 0
               THEN [fn EXCEPT !.j = fn.j + 1]
             ELSE [op |-> "mapline", n |-> fn.n, short |-> fn.short,
                   i |-> fn.i, j |-> fn.j, collected |-> fn.collected,
                   nTotalMatched |-> fn.nTotalMatched,
                   pKF2 |-> KeyFrameOfPosition(fn.collected, fn.i),
                   pKF3 |-> KeyFrameOfPosition(fn.collected, fn.j),
                   matched2 |-> fn.collected[fn.i + 1],
                   matched3 |-> fn.collected[fn.j + 1]]
    /\ UNCHANGED <<controlVars, mirror, ini>>

\* Line 995: the inner loop goes on to the next position j.
NextPosition ==
    /\ fn.op = "mapline"
    /\ fn' = [op |-> "pairs", n |-> fn.n, short |-> fn.short,
              i |-> fn.i, j |-> fn.j + 1, collected |-> fn.collected,
              nTotalMatched |-> fn.nTotalMatched]
    /\ UNCHANGED <<controlVars, mirror, ini>>

\* The function returns: at line 885, 924 or 967, or at the end of the
\* loop of line 969.
CreateNewMapLinesConstraintReturn ==
    /\ \/ fn.op = "linesReturned"
       \/ fn.op = "pairs" /\ ~(fn.i < Len(fn.collected) - 1)
    /\ fn' = NoCall
    /\ UNCHANGED <<controlVars, mirror, ini>>

LineNeighboursNext ==
    \/ CreateNewMapLinesConstraintCall \/ CollectLineMatches \/ CollectEnd
    \/ PairOfPositions \/ NextPosition \/ CreateNewMapLinesConstraintReturn

LineNeighbours == Init /\ [][LineNeighboursNext]_vars

----------------------------------------------------------------------------
(* Properties.                                                             *)

StrictlyIncreasing(s) == \A i \in 1..(Len(s) - 1) : s[i] < s[i + 1]

\* C1: keyframes are added to the Map and handed to the loop closer in the
\* order the tracker inserted them (ids are given in insertion order), each
\* at most once.
C1_FifoOrder == StrictlyIncreasing(mapKFs) /\ StrictlyIncreasing(loopKFs)

\* C2: while local BA runs (pc = "L97"), mbAbortBA is true whenever
\* InsertKeyFrame or RequestStop has completed since the checks of line 92, and
\* whenever a keyframe is queued or a completed RequestStop's request stands.
C2_AbortDuringBA ==
    pc = "L97" =>
        /\ sinceCheck => mbAbortBA
        /\ mlNewKeyFrames # <<>> => mbAbortBA
        /\ (mbStopRequested /\ closerPc # "rs_stop") => mbAbortBA

\* C2 witness: BA is running and a keyframe was inserted after the checks.
C2_Witness ==
    pc = "L97" /\ sinceCheck /\ mlNewKeyFrames # <<>> /\ mbAbortBA

\* C3: local BA is running only if the check of line 92 found the queue empty
\* and no stop requested and the Map holds more than 2 keyframes; when a
\* keyframe is queued at that check the mapper goes on to line 109.
C3_BAOnlyWhenIdle ==
    /\ [](pc = "L97" => ~lastCheckNew /\ ~lastStopReq /\ KeyFramesInMap > 2)
    /\ [][(pc = "L92" /\ mlNewKeyFrames # <<>> /\ pc' # pc) => pc' = "L109"]_vars
    /\ [][(pc' = "L97" /\ pc # "L97") => (pc = "L95" /\ ~lastCheckNew /\ ~lastStopReq)]_vars

\* C3 witness: local BA is running.
C3_Witness == pc = "L97" /\ ~lastCheckNew /\ ~lastStopReq /\ KeyFramesInMap = 3 /\ mlNewKeyFrames = <<>>

Alive_(w) == worker[w] # "none"

\* The order of the lines of one keyframe's processing.
PhaseOrder ==
    {<<"L66", "L69">>, <<"L69", "L70">>, <<"L70", "L71">>, <<"L71", "L72">>,
     <<"L72", "L75">>, <<"L75", "L77">>, <<"L77", "L78">>, <<"L78", "L79">>,
     <<"L79", "L82">>, <<"L82", "L86">>, <<"L82", "L89">>, <<"L86", "L89">>}

\* C4: ProcessNewKeyFrame, then the culling pair, then the creation pair, then
\* SearchInNeighbors: a creation thread exists only once both culling threads
\* are joined, SearchInNeighbors runs only after both creation threads are
\* joined and the check of line 82 found the queue empty, and at most two
\* worker threads exist at a time.
C4_PhaseOrder ==
    /\ []((Alive_("createP") \/ Alive_("createL")) =>
              (~Alive_("cullPoint") /\ ~Alive_("cullLine")))
    /\ [](Cardinality({w \in DOMAIN worker : Alive_(w)}) <= 2)
    /\ [](pc = "L86" => (\A w \in DOMAIN worker : ~Alive_(w)) /\ ~lastCheckNew)
    /\ []((Alive_("cullPoint") \/ Alive_("cullLine")) => pc \in {"L70", "L71", "L72"})
    /\ []((Alive_("createP") \/ Alive_("createL")) => pc \in {"L77", "L78", "L79"})
    /\ [][(pc \in {"L66", "L69", "L70", "L71", "L72", "L75", "L77", "L78", "L79", "L82", "L86"}
            /\ pc' # pc /\ pc' \notin {"crashed", "ub"}) => <<pc, pc'>> \in PhaseOrder]_vars
    /\ [][(pc = "L82" /\ pc' = "L86") => mlNewKeyFrames = <<>>]_vars

\* C4 witness: both creation threads exist, the culling threads are joined.
C4_Witness ==
    /\ worker["createP"] = "run" /\ worker["createL"] = "run"
    /\ worker["cullPoint"] = "none" /\ worker["cullLine"] = "none"

\* The lines between the pop of ProcessNewKeyFrame and the hand-over of line 109.
Processing ==
    pc \in {"L69", "L70", "L71", "L72", "L75", "L77", "L78", "L79", "L82", "L86",
            "L89", "L92", "L92s", "L95", "L97", "L105", "L109"}

\* C5: Stop() sets mbStopped and returns true exactly when mbStopRequested and
\* not mbNotStop, else it returns false and changes no flag; it is called only
\* after the check of line 63 found the queue empty, and the mapper is never
\* stopped between a pop and the hand-over to the loop closer.
C5_StopAtSafePoint ==
    /\ [][(pc = "L111" /\ pc' # pc) =>
            IF mbStopRequested /\ ~mbNotStop
            THEN mbStopped' /\ pc' = "L114"
            ELSE pc' = "L122" /\ UNCHANGED flagVars]_vars
    /\ [](pc = "L111" => ~lastCheckNew)
    /\ [][(pc' = "L111" /\ pc # "L111") => (pc = "L63" /\ mlNewKeyFrames = <<>>)]_vars
    /\ [](Processing => ~mbStopped)

\* C5 witness: Stop() has just accepted a stop request.
C5_Witness == pc = "L114" /\ mbStopped /\ mbStopRequested /\ ~mbNotStop

\* C6: no keyframe that Release() discarded from the queue is afterwards
\* popped, added to the Map or handed to the loop closer.
C6_ReleasedNeverProcessed ==
    /\ deleted \cap Range(mapKFs) = {}
    /\ deleted \cap Range(loopKFs) = {}

\* C7: once RequestStop() has returned with mbNotStop false, the mapper
\* becomes stopped unless Release(), RequestFinish() or SetNotStop(true)
\* intervenes; a stopped mapper is in the wait of line 114 or has finished,
\* and only Release() ends the stop.
C7_StopLeadsToStopped ==
    /\ (mbStopRequested /\ closerPc = "idle" /\ ~mbNotStop) ~>
           (mbStopped \/ closerPc # "idle" \/ mbFinishRequested \/ mbNotStop)
    /\ [](mbStopped => pc \in {"L114", "L114f", "L118", "L133", "L1954", "done"})
    /\ [][(mbStopped /\ ~mbStopped') => closerPc = "rel_stop"]_vars

\* C8: once RequestFinish() has returned the Run loop exits and SetFinish
\* returns, so that isFinished() answers true, and mbFinished stays true
\* (runs in which the mapper has crashed on the keyframe queue are set aside).
C8_FinishLeadsToFinished ==
    /\ mbFinishRequested ~> (pc = "done" \/ ~Alive)
    /\ [][(mbFinished /\ pc # "L52") => mbFinished']_vars

\* The stop, finish and accept flags.
StopFinishAcceptFlags ==
    <<mbFinishRequested, mbFinished, mbStopped, mbStopRequested, mbNotStop,
      mbAcceptKeyFrames>>

\* C9: ResetIfRequested (line 122) clears the queue, both probation lists and
\* the reset flag when it finds the flag set, and nothing otherwise; it leaves
\* the stop, finish and accept flags alone; only it clears the flag;
\* RequestReset sets the flag and changes nothing else, and returns only when
\* the flag is clear.
C9_ResetFrame ==
    /\ [][(pc = "L122" /\ pc' # pc) =>
            IF mbResetRequested
            THEN /\ mlNewKeyFrames' = <<>>
                 /\ mlpRecentAddedMapPoints' = <<>>
                 /\ mlpRecentAddedMapLines' = <<>>
                 /\ ~mbResetRequested'
                 /\ UNCHANGED StopFinishAcceptFlags
            ELSE UNCHANGED <<mlNewKeyFrames, mlpRecentAddedMapPoints,
                             mlpRecentAddedMapLines, flagVars>>]_vars
    /\ [][(mbResetRequested /\ ~mbResetRequested') => pc = "L122"]_vars
    /\ [][(~mbResetRequested /\ mbResetRequested') =>
            /\ trackerPc = "idle" /\ trackerPc' = "reset_wait"
            /\ UNCHANGED <<pc, worker, dataVars, mutexVars, StopFinishAcceptFlags,
                           mbAbortBA>>]_vars
    /\ [][(trackerPc = "reset_wait" /\ trackerPc' = "idle") => ~mbResetRequested]_vars

\* C9 witness: the loop has just served a reset that discarded a keyframe, and
\* RequestReset has not yet returned.
C9_Witness ==
    /\ pc = "L125" /\ trackerPc = "reset_wait" /\ ~mbResetRequested
    /\ mlNewKeyFrames = <<>>
    /\ mlpRecentAddedMapPoints = <<>> /\ mlpRecentAddedMapLines = <<>>
    /\ mpCurrentKeyFrame # 0
    /\ nextKFId > Len(mapKFs) + 1
    /\ closerPc = "idle" /\ ~mbStopRequested

\* The control state of the mapper, and its value in a freshly started one
\* (constructor, lines 33-37, and line 52).
ControlState ==
    <<mbStopRequested, mbStopped, mbNotStop, mbAbortBA, mbFinishRequested,
      mbFinished, mbResetRequested, mlNewKeyFrames>>

FreshControlState == <<FALSE, FALSE, FALSE, FALSE, FALSE, FALSE, FALSE, <<>>>>

\* A round trip is complete: Release() has returned and RequestStop() has
\* not been called again.
RoundTripDone == roundTrip > 0 /\ roundTrip % 2 = 0

\* C10 as stated: after RequestStop(), STOPPED, Release() on a freshly started
\* mapper, the control state equals that of a freshly started mapper, and
\* mbAcceptKeyFrames is true again once the loop has come round.
C10_RoundTripFresh ==
    RoundTripDone =>
        /\ ControlState = FreshControlState
        /\ pc \in {"L127", "L59"} => mbAcceptKeyFrames

\* C10 amended: the same, except that mbAbortBA is left true (RequestStop
\* sets it, line 1763, and only line 89 of a keyframe's processing clears it).
C10_RoundTripFreshButAbort ==
    RoundTripDone =>
        /\ [ControlState EXCEPT ![4] = FALSE] = FreshControlState
        /\ mbAbortBA
        /\ pc \in {"L127", "L59"} => mbAcceptKeyFrames

\* C10 witness: a round trip is complete and the loop has come round.
C10_Witness ==
    /\ roundTrip = 2 /\ pc = "L59" /\ mbAcceptKeyFrames
    /\ ~mbStopRequested /\ ~mbStopped /\ mbAbortBA

\* The steps taken under unique_lock<mutex> lock(mMutexNewKFs): InsertKeyFrame
\* (line 138), CheckNewKeyFrames (line 146, called at lines 63, 82 and 92),
\* the pop of ProcessNewKeyFrame (line 163) and RequestStop (line 1762).
UnderMutexNewKFs ==
    \/ pc \in {"L63", "L66", "L82", "L92"} /\ pc' # pc
    \/ nextKFId' # nextKFId
    \/ closerPc = "rs_stop" /\ closerPc' = "idle"

\* C11: every step that writes the keyframe queue or mbAbortBA, or that reads
\* the queue to delete its keyframes, is taken under the keyframe-queue mutex.
C11_QueueUnderMutex ==
    [][(\/ mlNewKeyFrames' # mlNewKeyFrames
        \/ mbAbortBA' # mbAbortBA
        \/ deleted' \ deleted # {}) => UnderMutexNewKFs]_vars

StructureUntouched ==
    /\ ini.vP3D = "orig" /\ ini.vbTriangulated = "orig"
    /\ ini.vLineS3D = "orig" /\ ini.vLineE3D = "orig"
    /\ ini.vbLineTriangulated = "orig"

\* C13 as stated: whenever Initialize returns false, on either path and in
\* either overload, no output parameter differs from its value at the call.
C13_NoOutputModified ==
    (ini.phase = "done" /\ ~ini.ret) =>
        StructureUntouched /\ ini.R21 = "orig" /\ ini.t21 = "orig"

\* C13 amended: whenever Initialize returns false, the structure outputs
\* (vP3D, vbTriangulated, vLineS3D, vLineE3D, vbLineTriangulated) hold their
\* values at the call, and R21 and t21 hold their values at the call on the
\* H path and are empty matrices on the F path.
C13_FailureOutputs ==
    (ini.phase = "done" /\ ~ini.ret) =>
        /\ StructureUntouched
        /\ ini.path = "H" => ini.R21 = "orig" /\ ini.t21 = "orig"
        /\ ini.path = "F" => ini.R21 = "empty" /\ ini.t21 = "empty"

\* The line overload fails on the F path although the winner has good points.
C13_Witness ==
    /\ ini.phase = "done" /\ ~ini.ret /\ ini.lines
    /\ ini.path = "F" /\ ini.best = 51 /\ ini.R21 = "empty"


\* C14: Initialize called with fewer than 8 valid matches never draws from an
\* empty candidate list nor accesses a vector out of bounds, and it returns,
\* with the value false.
C14_FewMatchesFailClean ==
    (ini.phase # "none" /\ ini.matches < 8) =>
        /\ ~ini.oob
        /\ ini.phase # "crashed"
        /\ ini.phase = "done" => ~ini.ret

\* C17: the H path is taken exactly when SH / (SH + SF) is defined and
\* strictly greater than 0.40 (5 * SH > 2 * (SH + SF)), the F path
\* otherwise, and exactly the chosen reconstruction is attempted (in a call
\* without out-of-range accesses).
C17_SelectByRatio ==
    (ini.phase \in {"reconstruct", "done"} /\ ~ini.oob) =>
        /\ ini.path = "H" <=>
               (ini.SH + ini.SF # 0 /\ 5 * ini.SH > 2 * (ini.SH + ini.SF))
        /\ ini.path \in {"H", "F"}
        /\ ini.phase = "done" => ini.attempted = {ini.path}


\* C15: a reconstruction whose winning hypothesis has parallax exactly
\* minParallax returns true on both paths when the conditions on the counts
\* of good points hold (in a call without out-of-range accesses).
C15_ParallaxInclusive ==
    (/\ ini.phase = "done" /\ ~ini.oob
     /\ ini.parallax = minParallax
     /\ ini.path = "H" =>
            /\ 4 * HLoop(ini).secondBestGood < 3 * HLoop(ini).bestGood
            /\ HLoop(ini).bestGood > minTriangulated
            /\ 10 * HLoop(ini).bestGood > 9 * ini.N
     /\ ini.path = "F" => ~(MaxGood(ini) < NMinGood(ini.N) \/ NSimilar(ini) > 1))
    => ini.ret

\* C16: a reconstruction whose best hypothesis has exactly minTriangulated
\* good points, with 0.9 * N below minTriangulated, returns true on both
\* paths when the conditions on the runner-up and on the parallax hold (in
\* a call without out-of-range accesses).
C16_MinTriangulatedInclusive ==
    (/\ ini.phase = "done" /\ ~ini.oob
     /\ ini.best = minTriangulated
     /\ 9 * ini.N < 10 * minTriangulated
     /\ ini.path = "H" =>
            /\ 4 * HLoop(ini).secondBestGood < 3 * HLoop(ini).bestGood
            /\ HLoop(ini).bestParallax >= minParallax
     /\ ini.path = "F" =>
            /\ NSimilar(ini) <= 1
            /\ ParallaxOf(ini, ChosenF(ini)) > minParallax)
    => ini.ret


\* C18 as stated: CheckHomography and CheckFundamental return score 0
\* whenever the call flags no match an inlier.
C18_ZeroScoreNoInlier ==
    (fn.op = "checked" /\ \A i \in 1..Len(fn.chis) : ~fn.vbMatchesInliers[i])
        => fn.score = 0

\* C18 amended: CheckHomography and CheckFundamental return score 0 whenever
\* no match passes the threshold in either direction.
C18_ZeroScoreNoDirection ==
    (/\ fn.op = "checked"
     /\ \A i \in 1..Len(fn.chis) :
            fn.chis[i][1] > Th(fn.which) /\ fn.chis[i][2] > Th(fn.which))
        => fn.score = 0

\* CheckFundamental scores two matches, none passing 3.841 in either
\* direction, one of them below 5.991.
C18_Witness ==
    /\ fn.op = "checked" /\ fn.which = "F" /\ Len(fn.chis) = 2
    /\ \A i \in 1..2 : fn.chis[i][1] > thFundamental /\ fn.chis[i][2] > thFundamental
    /\ fn.chis[1][1] < thScore
    /\ fn.score = 0 /\ fn.vbMatchesInliers = <<FALSE, FALSE>>


\* C19: a culling pass decides each element by the first rule that matches,
\* with age = cur - first and theta = 2 if monocular, 3 otherwise:
\* bad already: removed; found ratio < 0.25: set bad and removed; age >= 2
\* and observations <= theta: set bad and removed; age >= 3: removed, not
\* set bad; otherwise kept, unchanged.  The elements left are in their
\* order, not bad and of age at most 2.
C19_CullingRules ==
    fn.op = "culled" =>
        LET theta == IF fn.mono THEN 2 ELSE 3
            Left(i) == \E p \in 1..Len(fn.kept) : fn.kept[p] = i
        IN /\ \A i \in 1..Len(fn.before) :
                LET e == fn.before[i]
                    age == fn.cur - e.first
                IN \/ e.bad /\ ~Left(i) /\ i \in fn.bad
                   \/ /\ ~e.bad /\ 4 * e.found < e.visible
                      /\ ~Left(i) /\ i \in fn.bad
                   \/ /\ ~e.bad /\ 4 * e.found >= e.visible
                      /\ age >= 2 /\ e.nObs <= theta
                      /\ ~Left(i) /\ i \in fn.bad
                   \/ /\ ~e.bad /\ 4 * e.found >= e.visible
                      /\ ~(age >= 2 /\ e.nObs <= theta) /\ age >= 3
                      /\ ~Left(i) /\ i \notin fn.bad
                   \/ /\ ~e.bad /\ 4 * e.found >= e.visible
                      /\ ~(age >= 2 /\ e.nObs <= theta) /\ age < 3
                      /\ Left(i) /\ i \notin fn.bad
           /\ \A p \in 1..Len(fn.kept) :
                /\ fn.kept[p] \notin fn.bad
                /\ fn.cur - fn.before[fn.kept[p]].first <= 2
                /\ \A q \in 1..(p - 1) : fn.kept[q] < fn.kept[p]

\* A stereo pass over two lines: one of age 3 with 3 observations is set bad,
\* one of age 2 with 4 observations stays.
C19_Witness ==
    /\ fn.op = "culled" /\ fn.kind = "line" /\ ~fn.mono /\ Len(fn.before) = 2
    /\ fn.before[1] = [first |-> fn.cur - 3, bad |-> FALSE, found |-> 1,
                       visible |-> 4, nObs |-> 3]
    /\ fn.before[2] = [first |-> fn.cur - 2, bad |-> FALSE, found |-> 1,
                       visible |-> 4, nObs |-> 4]
    /\ fn.kept = <<2>> /\ fn.bad = {1}


\* C20: KeyFrameCulling flags a covisible keyframe with counted points
\* exactly when its id is not 0 and at least 90% of the counted points are
\* redundant (exactly 90% included); keyframe 0 is never flagged.
C20_FlagsAtLeast90 ==
    fn.op = "kfculled" =>
        \A i \in 1..Len(fn.vpLocalKeyFrames) :
            LET k == fn.vpLocalKeyFrames[i]
            IN /\ k.id = 0 => i \notin fn.flagged
               /\ (k.id # 0 /\ k.redundant + k.other > 0) =>
                      (i \in fn.flagged <=>
                           10 * k.redundant >= 9 * (k.redundant + k.other))


\* C21: an observation by another keyframe is counted toward a point's
\* redundancy only if its octave is at most the octave at which the
\* candidate keyframe sees the point.
C21_EqualOrFinerScale ==
    fn.op = "counted" =>
        \A i \in fn.counted : fn.others[i] <= fn.scaleLevel


\* C22: ReconstructF returns false before the parallax test exactly when
\* maxGood < max(0.9 * N, 50), with 0.9 * N a real number, or more than one
\* hypothesis has at least 70% of maxGood good points (exactly 70% included).
\* With the winner's parallax above minParallax, false is returned only
\* before the parallax test.  Calls without out-of-range accesses.
C22_RejectBeforeParallax ==
    (/\ ini.phase = "done" /\ ini.path = "F" /\ ~ini.oob
     /\ ParallaxOf(ini, ChosenF(ini)) > minParallax)
    => (~ini.ret <=>
          \/ 10 * MaxGood(ini) < 9 * ini.N
          \/ MaxGood(ini) < 50
          \/ Cardinality({i \in 1..4 : 10 * NGood(ini, 4, i) >= 7 * MaxGood(ini)}) > 1)


\* C23: every line flagged triangulated by ReconstructLine and every MapLine
\* created by CreateNewMapLinesConstraint has both endpoints at positive
\* depth in each creating camera and a squared reprojection error within
\* the threshold in each creating view (flags written inside the vector).
C23_LinesInFrontAndWithin ==
    (/\ fn.op = "line" /\ fn.made
     /\ fn.by = "ReconstructLine" => fn.index < fn.size) =>
        \A v \in 1..fn.views :
            /\ \A e \in 1..2 : fn.depth[v][e] > 0
            /\ IF fn.by = "ReconstructLine"
               THEN fn.err[v] <= chiLine
               ELSE \A e \in 1..2 : fn.err[v][e] <= chiLine


\* The mutex a thread holds and the mutex it is blocked on, for the two
\* places where a thread takes a second control mutex while it holds one:
\* SetFinish (mapper, line 1954) and Release (closer, line 1794).
HoldsAndWaits(thread, held, wanted) ==
    \/ /\ thread = "mapper" /\ pc = "L1954" /\ mMutexFinish = "mapper"
       /\ held = "mMutexFinish" /\ wanted = "mMutexStop"
    \/ /\ thread = "closer" /\ closerPc = "rel_stop" /\ mMutexStop = "closer"
       /\ held = "mMutexStop" /\ wanted = "mMutexFinish"

\* C24: no reachable state has two threads that each hold one control mutex
\* and wait for the one the other holds.
C24_NoLockCycle ==
    ~ \E m1, m2 \in {"mMutexStop", "mMutexFinish"} :
         HoldsAndWaits("mapper", m1, m2) /\ HoldsAndWaits("closer", m2, m1)


\* The Run loop has been left (break at line 119 or 128), or the process
\* has been stopped by undefined behaviour.
RunLoopExited == pc \in {"L133", "L1954", "done"} \/ ~Alive

\* C25: under fair scheduling every call of RequestReset() returns, unless
\* the Run loop exits first, whatever the mapper is doing at the call:
\* processing a keyframe, idle, or waiting in the STOPPED state.
C25_ResetReturns ==
    (trackerPc = "reset_wait") ~> (trackerPc = "idle" \/ RunLoopExited)


\* C26 as stated: in every reachable state the stopped flag and the notStop
\* flag are not both true.
C26_NeverStoppedWhileNotStop == ~(mbStopped /\ mbNotStop)

\* C26 amended: until SetFinish has run, the stopped flag and the notStop
\* flag are not both true; SetNotStop(true) changes nothing when the mapper
\* is stopped, and no operation other than the final SetFinish sets the
\* stopped flag while notStop is true.
C26_NotStoppedWhileNotStopUntilFinish ==
    /\ [](pc # "done" => ~(mbStopped /\ mbNotStop))
    /\ [][/\ (mbStopped /\ ~mbNotStop) => ~mbNotStop'
          /\ (~mbStopped /\ mbStopped' /\ mbNotStop) => pc = "L1954"]_vars

\* notStop is set, a stop is requested and the mapper's Stop() has refused.
C26_Witness ==
    /\ pc = "L122" /\ mbNotStop /\ mbStopRequested /\ ~mbStopped
    /\ closerPc = "idle"


\* C27 as stated: isFinished() (the value of mbFinished) is true only if
\* RequestFinish() was called and the Run loop has exited.
C27_FinishedOnlyAfterFinish ==
    mbFinished => (mbFinishRequested /\ pc \in {"L1954", "done"})

\* C27 amended: isFinished() is true only if the Run loop has not yet
\* started, or RequestFinish() was called and the Run loop has exited; on a
\* mapper whose Run loop has not yet started Release() returns without
\* changing any flag or the queue.
C27_FinishedOnlyWhenNotRunning ==
    /\ [](mbFinished => \/ pc = "L52"
                        \/ mbFinishRequested /\ pc \in {"L1954", "done"})
    /\ [][(pc = "L52" /\ closerPc = "rel_stop" /\ closerPc' = "idle")
            => UNCHANGED <<flagVars, dataVars>>]_vars

\* Release() is under way on a mapper whose Run loop has not started, with a
\* stop requested.
C27_Witness ==
    pc = "L52" /\ mbFinished /\ mbStopRequested /\ closerPc = "rel_stop"


\* C28: when FindHomography and FindFundamental have returned, each inlier
\* vector has exactly one entry per valid match (calls with at least 8
\* matches, whose sampling stays in range).
C28_InlierVectorSizes ==
    (ini.phase \in {"reconstruct", "done"} /\ ini.matches >= 8) =>
        ini.sizeH = ini.matches /\ ini.sizeF = ini.matches


\* C29: ReconstructLine writes endpoints and flags only at indices inside
\* the output vectors, for every reference line index of a line match and
\* whatever the numbers of point and line features of the reference frame.
C29_LineWritesInBounds ==
    (fn.op = "line" /\ fn.by = "ReconstructLine" /\ fn.wrote) => fn.index < fn.size

\* C30: every MapLine of CreateNewMapLinesConstraint is registered with the
\* keyframes its line features were matched in: the match arrays at the
\* positions i and j of the collected list were computed against the
\* neighbours used as pKF2 and pKF3, also when neighbours were skipped by
\* the baseline test.
C30_RegisteredWithMatchedKeyFrames ==
    fn.op = "mapline" => fn.matched2 = fn.pKF2 /\ fn.matched3 = fn.pKF3

====
